---------------------------- MODULE Spec2Model ----------------------------
(***************************************************************************)
(* A model of the douyin-nas-asr server: the TaskManager (registry,        *)
(* admission gate, retention sweep), the two Task variants and their       *)
(* JobInfo state machine, the DouyinDownloader retrieval pipeline and the  *)
(* DataManager cache index.                                                *)
(*                                                                         *)
(* Each action is one run of a coroutine between two suspension points     *)
(* (an await that really yields), or one call of a synchronous handler.    *)
(***************************************************************************)
EXTENDS Integers, Sequences, FiniteSets, TLC

(***************************************************************************)
(* Bounds of the model.                                                    *)
(***************************************************************************)
\* job identifiers minted in the orchestration specification
MaxJobs == 4
\* job identifiers minted in the life-cycle specification
MaxRuns == 2
\* the clock stops here
MaxTime == 2

\* settings.JOB_RETENTION_SECONDS (86400 by default, read from the
\* environment), in ticks of the model's clock
JOB_RETENTION_SECONDS == 1
\* the pairs of one batch download
MaxPairs == 2
\* the jobs submitted one after the other
MaxCalls == 2

(***************************************************************************)
(* Program constants.                                                      *)
(***************************************************************************)
\* main.py: app.state.semaphore = Semaphore(3)
GateSize == 3

JobIds == 1..MaxJobs

(***************************************************************************)
(* models.py                                                               *)
(***************************************************************************)
PENDING == "pending"
PROCESSING == "processing"
COMPLETED == "completed"
FAILED == "failed"
TaskStatus == {PENDING, PROCESSING, COMPLETED, FAILED}

ErrorCode ==
    {"internal_error", "download_failed", "no_video_found",
     "transcribe_failed", "transcribe_empty"}

MESSAGE_TEMPLATES ==
    [download_pending   |-> "Task created, waiting to download.",
     download_running   |-> "Downloading video...",
     download_success   |-> "Download success.",
     download_failed    |-> "Download failed or no video found.",
     transcribe_pending |-> "Task created, waiting to transcribe.",
     transcribe_running |-> "Transcribing (please wait)...",
     transcribe_success |-> "Transcription success.",
     transcribe_empty   |-> "Transcription returned empty.",
     transcribe_failed  |-> "Transcription failed.",
     internal_error     |-> "Internal error occurred."]

MessageCode == DOMAIN MESSAGE_TEMPLATES

\* Optional[...] = None
None == [tag |-> "None"]

\* ErrorInfo(code, message, detail)
ErrorInfo(code, message, detail) ==
    [tag |-> "ErrorInfo", code |-> code, message |-> message, detail |-> detail]

\* JobInfo(task_id, status, video_id) with the defaults of the model class;
\* created_at = time.time()
JobInfo(task_id, status, video_id, created) ==
    [task_id |-> task_id, status |-> status, video_id |-> video_id,
     message_code |-> "", message |-> "", result |-> None,
     created_at |-> created, error |-> None]

\* the slot of a job identifier that has not been minted yet
NoJob == JobInfo(0, "", <<>>, 0)

(***************************************************************************)
(* Paths.  A media destination is <root>/<author>/[<folder>/]<name>.<ext>. *)
(***************************************************************************)
MkPath(root, author, folder, name, ext) ==
    [root |-> root, author |-> author, folder |-> folder,
     name |-> name, ext |-> ext]

\* Path.suffix.lower()
Suffix(p) == p.ext

\* str(path): the components joined; the empty folder of a single video
\* contributes no component
PathStr(p) ==
    IF p.folder = <<>>
    THEN <<p.root, p.author, p.name, p.ext>>
    ELSE <<p.root, p.author, p.folder, p.name, p.ext>>

VARIABLES
    tasks,       \* TaskManager._tasks: the registered job identifiers
    job,         \* the JobInfo of every minted job
    variant,     \* the Task class of every minted job
    pc,          \* where the run_task coroutine of each job stands
    semValue,    \* Semaphore._value
    semWaiters,  \* Semaphore._waiters, oldest first
    now,         \* time.time()
    files,       \* the list download returned to the job's run
    transcribed, \* the files handed to transcriber.transcribe, per job
    index,       \* the table video_index: key -> file_id (the folder)
    jsonfs,      \* the JSON files under json_dir: <<folder, key>> -> content
    media,       \* the files under video_dir and image_dir: path -> content
    uid_to_name_map,  \* settings.uid_to_name_map
    th,          \* the DataManager call each job has handed to a thread
    dl,          \* the download call of each job
    lastSave,    \* history: per key, the last save_new_data that returned
    past         \* history: what the download call of each job did

jobVars == <<tasks, job, variant, pc, semValue, semWaiters, now, files, transcribed>>

retrVars == <<index, jsonfs, media, uid_to_name_map, th, dl, lastSave, past>>

vars == <<jobVars, retrVars>>

(***************************************************************************)
(* tasks.py: BaseTask                                                      *)
(***************************************************************************)
\* BaseTask.set_message
set_message(jb, code) ==
    [jb EXCEPT !.message_code = code,
               !.message = IF code \in DOMAIN MESSAGE_TEMPLATES
                           THEN MESSAGE_TEMPLATES[code]
                           ELSE code]

\* mutant: fail builds the ErrorInfo before it renders the message
fail_MessageBefore(jb, code, msg_code, exc) ==
    LET j1 == [jb EXCEPT !.status = FAILED,
                         !.error = ErrorInfo(code, jb.message, exc)]
    IN  set_message(j1, msg_code)

\* BaseTask.fail; exc is the repr of the exception or "None"
fail(jb, code, msg_code, exc) ==
    LET j1 == set_message([jb EXCEPT !.status = FAILED], msg_code)
    IN  [j1 EXCEPT !.error = ErrorInfo(code, j1.message, exc)]


\* mutant: the loop goes on after a transcription and keeps the last video
FirstVideo_Last(fs) ==
    IF \E i \in DOMAIN fs : Suffix(fs[i]) \in {"mp4", "mov", "mkv"}
    THEN CHOOSE i \in DOMAIN fs :
            /\ Suffix(fs[i]) \in {"mp4", "mov", "mkv"}
            /\ \A k \in (i + 1)..Len(fs) : Suffix(fs[k]) \notin {"mp4", "mov", "mkv"}
    ELSE 0

\* the first file of the list with a video suffix, 0 when there is none
\* (the for loop of DownloadAndTranscribeTask.run, which breaks at the first)
FirstVideo(fs) ==
    IF \E i \in DOMAIN fs : Suffix(fs[i]) \in {"mp4", "mov", "mkv"}
    THEN CHOOSE i \in DOMAIN fs :
            /\ Suffix(fs[i]) \in {"mp4", "mov", "mkv"}
            /\ \A k \in 1..(i - 1) : Suffix(fs[k]) \notin {"mp4", "mov", "mkv"}
    ELSE 0

\* What an awaited call hands back: a value, or an exception.
Returned(v) == [kind |-> "return", value |-> v]
Raised(exc) == [kind |-> "raise", exc |-> exc]

\* mutant: run forgets to mark the job Processing
RunEnter_NoProcessing(jb) == set_message(jb, "download_running")

\* DownloadTask.run and DownloadAndTranscribeTask.run up to the await of
\* downloader.download
RunEnter(jb) == set_message([jb EXCEPT !.status = PROCESSING], "download_running")

\* mutant: the except block of DownloadTask.run re-raises after fail()
DownloadTaskResume_Reraise(jb, o) ==
    IF o.kind = "raise"
    THEN [job |-> fail(jb, "internal_error", "internal_error", o.exc),
          next |-> "raise"]
    ELSE IF o.value # <<>>
    THEN [job |-> set_message(
                    [jb EXCEPT !.status = COMPLETED,
                               !.result = [tag |-> "files",
                                           files |-> [i \in DOMAIN o.value |->
                                                        PathStr(o.value[i])]]],
                    "download_success"),
          next |-> "return"]
    ELSE [job |-> fail(jb, "download_failed", "download_failed", "None"),
          next |-> "return"]

\* mutant: DownloadTask.run stores the file list before it tests it
DownloadTaskResume_ResultFirst(jb, o) ==
    IF o.kind = "raise"
    THEN [job |-> fail(jb, "internal_error", "internal_error", o.exc),
          next |-> "return"]
    ELSE LET j1 == [jb EXCEPT !.result = [tag |-> "files",
                                          files |-> [i \in DOMAIN o.value |->
                                                       PathStr(o.value[i])]]]
         IN  IF o.value # <<>>
             THEN [job |-> set_message([j1 EXCEPT !.status = COMPLETED],
                                       "download_success"),
                   next |-> "return"]
             ELSE [job |-> fail(j1, "download_failed", "download_failed", "None"),
                   next |-> "return"]

\* DownloadTask.run from the return of downloader.download to its end.
\* next: "return" (run returns), "raise" (run raises).
DownloadTaskResume(jb, o) ==
    IF o.kind = "raise"
    THEN [job |-> fail(jb, "internal_error", "internal_error", o.exc),
          next |-> "return"]
    ELSE IF o.value # <<>>
    THEN [job |-> set_message(
                    [jb EXCEPT !.status = COMPLETED,
                               !.result = [tag |-> "files",
                                           files |-> [i \in DOMAIN o.value |->
                                                        PathStr(o.value[i])]]],
                    "download_success"),
          next |-> "return"]
    ELSE [job |-> fail(jb, "download_failed", "download_failed", "None"),
          next |-> "return"]

\* mutant: DownloadAndTranscribeTask reports an empty download under the
\* code DownloadTask uses
TranscribeTaskResume_SameCode(jb, o) ==
    IF o.kind = "raise"
    THEN [job |-> fail(jb, "internal_error", "internal_error", o.exc),
          next |-> "return"]
    ELSE IF o.value = <<>>
    THEN [job |-> fail(jb, "download_failed", "download_failed", "None"),
          next |-> "return"]
    ELSE LET j1 == set_message(jb, "transcribe_running")
         IN  IF FirstVideo(o.value) # 0
             THEN [job |-> j1, next |-> "transcribe"]
             ELSE [job |-> fail(j1, "transcribe_empty", "transcribe_empty", "None"),
                   next |-> "return"]

\* DownloadAndTranscribeTask.run from the return of downloader.download to
\* the await of transcriber.transcribe (next = "transcribe") or to its end.
TranscribeTaskResume(jb, o) ==
    IF o.kind = "raise"
    THEN [job |-> fail(jb, "internal_error", "internal_error", o.exc),
          next |-> "return"]
    ELSE IF o.value = <<>>
    THEN [job |-> fail(jb, "no_video_found", "download_failed", "None"),
          next |-> "return"]
    ELSE LET j1 == set_message(jb, "transcribe_running")
         IN  IF FirstVideo(o.value) # 0
             THEN [job |-> j1, next |-> "transcribe"]
             ELSE \* transcript_result stays ""
                  [job |-> fail(j1, "transcribe_empty", "transcribe_empty", "None"),
                   next |-> "return"]

\* mutant: an exception of the transcriber is reported as an empty
\* transcript
TranscribeTaskFinish_AsEmpty(jb, t) ==
    IF t.kind = "raise"
    THEN [job |-> fail(jb, "transcribe_empty", "transcribe_empty", t.exc),
          next |-> "return"]
    ELSE IF t.value # ""
    THEN [job |-> set_message(
                    [jb EXCEPT !.status = COMPLETED,
                               !.result = [tag |-> "text", text |-> t.value]],
                    "transcribe_success"),
          next |-> "return"]
    ELSE [job |-> fail(jb, "transcribe_empty", "transcribe_empty", "None"),
          next |-> "return"]

\* DownloadAndTranscribeTask.run from the return of transcriber.transcribe
\* to its end.
TranscribeTaskFinish(jb, t) ==
    IF t.kind = "raise"
    THEN [job |-> fail(jb, "transcribe_failed", "transcribe_failed", t.exc),
          next |-> "return"]
    ELSE IF t.value # ""
    THEN [job |-> set_message(
                    [jb EXCEPT !.status = COMPLETED,
                               !.result = [tag |-> "text", text |-> t.value]],
                    "transcribe_success"),
          next |-> "return"]
    ELSE [job |-> fail(jb, "transcribe_empty", "transcribe_empty", "None"),
          next |-> "return"]

(***************************************************************************)
(* asyncio.Semaphore as run_task uses it (async with semaphore).  A waiter *)
(* stays in _waiters, its future done, until its coroutine resumes.        *)
(***************************************************************************)
\* mutant: run_task runs the task without entering the gate
Locked_Never == FALSE

\* Semaphore.locked()
Locked == semValue = 0 \/ semWaiters # <<>>

\* the queue position of the oldest waiter whose future is not done, or 0
FirstWaiting(p) ==
    IF \E i \in DOMAIN semWaiters : p[semWaiters[i]] = "waiting"
    THEN CHOOSE i \in DOMAIN semWaiters :
            /\ p[semWaiters[i]] = "waiting"
            /\ \A k \in 1..(i - 1) : p[semWaiters[k]] # "waiting"
    ELSE 0

\* Semaphore._wake_up_next on s = [value, pc]
WakeUpNext(s) ==
    LET i == FirstWaiting(s.pc)
    IN  IF i = 0 THEN s
        ELSE [value |-> s.value - 1,
              pc |-> [s.pc EXCEPT ![semWaiters[i]] = "woken"]]

\* while self._value > 0: if not self._wake_up_next(): break
RECURSIVE WakeLoop(_)
WakeLoop(s) ==
    IF s.value > 0 /\ FirstWaiting(s.pc) # 0 THEN WakeLoop(WakeUpNext(s)) ELSE s

\* mutant: release frees the slot and wakes no waiter
Release_NoWake(s) == [s EXCEPT !.value = @ + 1]

\* Semaphore.release
Release(s) == WakeUpNext([s EXCEPT !.value = @ + 1])

(***************************************************************************)
(* task_manager.py                                                         *)
(***************************************************************************)
\* TaskManager.get_job
get_job(task_id) == IF task_id \in tasks THEN job[task_id] ELSE None

\* mutant: the sweep compares with >= and evicts a job at the window's edge
Expired_AtWindow(t) ==
    {tid \in tasks : t - job[tid].created_at >= JOB_RETENTION_SECONDS}

\* mutant: the sweep spares the jobs that have not reached a terminal status
Expired_SparesUnfinished(t) ==
    {tid \in tasks : /\ t - job[tid].created_at > JOB_RETENTION_SECONDS
                     /\ job[tid].status \in {COMPLETED, FAILED}}

\* the identifiers TaskManager.cleanup_old_jobs collects at time t
Expired(t) ==
    {tid \in tasks : t - job[tid].created_at > JOB_RETENTION_SECONDS}

\* TaskManager.cleanup_old_jobs
cleanup_old_jobs == tasks' = tasks \ Expired(now)

\* mutant: the slot is released only after a run that did not fail
ExitRun_LeakOnFail(j, how) ==
    LET s == IF job'[j].status = FAILED
             THEN [value |-> semValue, pc |-> pc]
             ELSE Release([value |-> semValue, pc |-> pc])
    IN  /\ semValue' = s.value
        /\ pc' = [s.pc EXCEPT ![j] = IF how = "raise" THEN "raised" ELSE "returned"]
        /\ IF how = "raise" THEN tasks' = tasks ELSE cleanup_old_jobs
        /\ UNCHANGED semWaiters

\* mutant: the task is scheduled again when its run is over
ExitRun_Reschedules(j, how) ==
    LET s == Release([value |-> semValue, pc |-> pc])
    IN  /\ semValue' = s.value
        /\ pc' = [s.pc EXCEPT ![j] = "scheduled"]
        /\ IF how = "raise" THEN tasks' = tasks ELSE cleanup_old_jobs
        /\ UNCHANGED semWaiters

\* The end of run_task once task.run() is over: the context manager
\* releases the slot; a normal return is followed by the sweep, an
\* exception leaves run_task past it.
ExitRun(j, how) ==
    LET s == Release([value |-> semValue, pc |-> pc])
    IN  /\ semValue' = s.value
        /\ pc' = [s.pc EXCEPT ![j] = IF how = "raise" THEN "raised" ELSE "returned"]
        /\ IF how = "raise" THEN tasks' = tasks ELSE cleanup_old_jobs
        /\ UNCHANGED semWaiters

(***************************************************************************)
(* main.py: the two submission handlers.  The identifier is a fresh uuid4: *)
(* the model mints the identifiers in order.                               *)
(***************************************************************************)
TaskClasses == {"DownloadTask", "DownloadAndTranscribeTask"}

Submit(j, cls, text) ==
    /\ pc[j] = "idle"
    /\ \A i \in 1..(j - 1) : pc[i] # "idle"
    /\ job' = [job EXCEPT ![j] =
                 set_message(JobInfo(j, PENDING, text, now), "download_pending")]
    /\ variant' = [variant EXCEPT ![j] = cls]
    /\ tasks' = tasks \cup {j}
    /\ pc' = [pc EXCEPT ![j] = "scheduled"]
    /\ UNCHANGED <<semValue, semWaiters, now, files, transcribed>>
    /\ UNCHANGED retrVars

\* mutant: run_task does not look the task up and enters the gate
RunTask_NoLookup(j) ==
    /\ pc[j] = "scheduled"
    /\ IF ~Locked
       THEN /\ semValue' = semValue - 1
            /\ job' = [job EXCEPT ![j] = RunEnter(@)]
            /\ pc' = [pc EXCEPT ![j] = "download"]
            /\ UNCHANGED semWaiters
       ELSE /\ semWaiters' = Append(semWaiters, j)
            /\ pc' = [pc EXCEPT ![j] = "waiting"]
            /\ UNCHANGED <<job, semValue>>
    /\ UNCHANGED <<tasks, variant, now, files, transcribed>>
    /\ UNCHANGED retrVars

\* run_task from its start to its first suspension
RunTask(j) ==
    /\ pc[j] = "scheduled"
    /\ IF j \notin tasks
       THEN /\ pc' = [pc EXCEPT ![j] = "returned"]
            /\ UNCHANGED <<job, semValue, semWaiters>>
       ELSE IF ~Locked
       THEN /\ semValue' = semValue - 1
            /\ job' = [job EXCEPT ![j] = RunEnter(@)]
            /\ pc' = [pc EXCEPT ![j] = "download"]
            /\ UNCHANGED semWaiters
       ELSE /\ semWaiters' = Append(semWaiters, j)
            /\ pc' = [pc EXCEPT ![j] = "waiting"]
            /\ UNCHANGED <<job, semValue>>
    /\ UNCHANGED <<tasks, variant, now, files, transcribed>>
    /\ UNCHANGED retrVars

\* run_task resumes in Semaphore.acquire with its future done
Admit(j) ==
    /\ pc[j] = "woken"
    /\ LET rest == SelectSeq(semWaiters, LAMBDA k : k # j)
           s == WakeLoop([value |-> semValue, pc |-> [pc EXCEPT ![j] = "download"]])
       IN  /\ semWaiters' = rest
           /\ semValue' = s.value
           /\ pc' = s.pc
    /\ job' = [job EXCEPT ![j] = RunEnter(@)]
    /\ UNCHANGED <<tasks, variant, now, files, transcribed>>
    /\ UNCHANGED retrVars

\* the await of downloader.download is over with outcome o
DownloadResume(j, o) ==
    /\ pc[j] = "download"
    /\ LET r == IF variant[j] = "DownloadTask"
                THEN DownloadTaskResume(job[j], o)
                ELSE TranscribeTaskResume(job[j], o)
       IN  /\ job' = [job EXCEPT ![j] = r.job]
           /\ files' = [files EXCEPT ![j] = IF o.kind = "return" THEN o.value ELSE <<>>]
           /\ IF r.next = "transcribe"
              THEN /\ pc' = [pc EXCEPT ![j] = "transcribe"]
                   /\ transcribed' = [transcribed EXCEPT ![j] =
                                        Append(@, o.value[FirstVideo(o.value)])]
                   /\ UNCHANGED <<tasks, semValue, semWaiters>>
              ELSE /\ ExitRun(j, r.next)
                   /\ UNCHANGED transcribed
    /\ UNCHANGED <<variant, now>>

\* download as a collaborator that ends with outcome o
DownloadDone(j, o) ==
    /\ DownloadResume(j, o)
    /\ UNCHANGED retrVars

\* the await of transcriber.transcribe is over with outcome t
TranscribeDone(j, t) ==
    /\ pc[j] = "transcribe"
    /\ LET r == TranscribeTaskFinish(job[j], t)
       IN  /\ job' = [job EXCEPT ![j] = r.job]
           /\ ExitRun(j, r.next)
    /\ UNCHANGED <<variant, now, files, transcribed>>
    /\ UNCHANGED retrVars

\* time passes
Tick ==
    /\ now < MaxTime
    /\ now' = now + 1
    /\ UNCHANGED <<tasks, job, variant, pc, semValue, semWaiters, files, transcribed>>
    /\ UNCHANGED retrVars

(***************************************************************************)
(* downloader.py: the helpers.  A text is a sequence of characters; the    *)
(* literal host of a share link is one token of the alphabet.              *)
(***************************************************************************)
HOST == "v.douyin.com/"
Whitespace == {" "}
DigitChars == {"0", "1", "2", "3", "4", "5", "6", "7", "8", "9"}
\* the letters of [a-zA-Z] the texts of the model use
LetterChars == {"a", "b", "Z"}
AlnumChars == DigitChars \cup LetterChars
\* the characters re.sub(r'[\\/*?:"<>|]', "_", text) replaces
UnsafeChars == {"\\", "/", "*", "?", ":", "\"", "<", ">", "|"}

\* text[a..b], empty when a > b
Slice(t, a, b) == IF a > b THEN <<>> ELSE SubSeq(t, a, b)

\* str.strip(): leading and trailing whitespace off
RECURSIVE LStrip(_)
LStrip(t) ==
    IF t # <<>> /\ Head(t) \in Whitespace THEN LStrip(Tail(t)) ELSE t

RECURSIVE RStrip(_)
RStrip(t) ==
    IF t # <<>> /\ t[Len(t)] \in Whitespace
    THEN RStrip(Slice(t, 1, Len(t) - 1))
    ELSE t

Strip(t) == RStrip(LStrip(t))

\* str.strip("."): leading and trailing dots off
RECURSIVE StripDots(_)
StripDots(t) ==
    IF t # <<>> /\ Head(t) = "." THEN StripDots(Tail(t))
    ELSE IF t # <<>> /\ t[Len(t)] = "." THEN StripDots(Slice(t, 1, Len(t) - 1))
    ELSE t

\* mutant: the pattern is \d+, without the bounds on the length
IsNumericId_AnyLength(t) ==
    /\ t # <<>>
    /\ \A i \in DOMAIN t : t[i] \in DigitChars

\* re.fullmatch(r"\d{18,20}", text)
IsNumericId(t) ==
    /\ Len(t) >= 18
    /\ Len(t) <= 20
    /\ \A i \in DOMAIN t : t[i] \in DigitChars

\* the longest run of [a-zA-Z0-9] of t from position i on
RECURSIVE AlnumRun(_, _)
AlnumRun(t, i) ==
    IF i <= Len(t) /\ t[i] \in AlnumChars
    THEN <<t[i]>> \o AlnumRun(t, i + 1)
    ELSE <<>>

\* _extract_douyin_code_regex: group 1 of the leftmost match of
\* v\.douyin\.com/([a-zA-Z0-9]+), <<>> for None
_extract_douyin_code_regex(t) ==
    LET hits == {i \in DOMAIN t : t[i] = HOST /\ AlnumRun(t, i + 1) # <<>>}
    IN  IF hits = {} THEN <<>>
        ELSE AlnumRun(t, (CHOOSE i \in hits : \A k \in hits : i <= k) + 1)

\* DouyinDownloader._parse_input: (api_url, params, cache_key), or the
\* ValueError it raises
_parse_input(text0) ==
    LET text == Strip(text0)
        short_code == _extract_douyin_code_regex(text)
    IN  IF IsNumericId(text)
        THEN [ok |-> TRUE, api_url |-> "id_api_url",
              params |-> [name |-> "aweme_id", value |-> text],
              cache_key |-> text]
        ELSE IF short_code # <<>>
        THEN [ok |-> TRUE, api_url |-> "url_api_url",
              params |-> [name |-> "share_url", value |-> text],
              cache_key |-> short_code]
        ELSE [ok |-> FALSE, exc |-> "ValueError()"]

\* _get_safe_filename(text, max_length=60)
MaxFileName == 60

_get_safe_filename(text) ==
    IF text = <<>> THEN <<"U", "n", "t", "i", "t", "l", "e", "d">>
    ELSE LET subbed == [i \in DOMAIN text |->
                          IF text[i] \in UnsafeChars THEN "_" ELSE text[i]]
             clean == StripDots(Strip(Strip(subbed)))
         IN  Slice(clean, 1, IF Len(clean) < MaxFileName THEN Len(clean)
                             ELSE MaxFileName)

(***************************************************************************)
(* The metadata documents.  An absent key, an empty list and None behave   *)
(* alike wherever the code reads them (dict.get with a falsy test), and    *)
(* are one value here: <<>> for a list, None for an object, 0 for the type *)
(* tag, "" for a string.                                                   *)
(***************************************************************************)
\* an item of aweme_detail["images"]
ImageItem(url_list, h264_urls, play_urls) ==
    [url_list |-> url_list,
     video |-> [play_addr_h264 |-> h264_urls, play_addr |-> play_urls]]

\* aweme_detail
AwemeDetail(aweme_id, desc, media_type, uid, nickname, video, images) ==
    [aweme_id |-> aweme_id, desc |-> desc, media_type |-> media_type,
     author |-> [uid |-> uid, nickname |-> nickname],
     video |-> video, images |-> images]

\* aweme_detail["video"] with its play_addr.url_list
Video(url_list) == [tag |-> "video", url_list |-> url_list]

\* the JSON body of a metadata response
ApiDoc(code, data) == [code |-> code, data |-> data]

\* data.get("data", {}).get("aweme_detail")
DetailOf(data) ==
    IF data.data = None THEN None ELSE data.data.aweme_detail

\* DouyinDownloader._extract_metadata: (author_name, desc)
_extract_metadata(d, map) ==
    LET uid == IF d.author.uid = "" THEN "UnknownUserID" ELSE d.author.uid
        nickname == IF d.author.nickname = "" THEN "UnknownAuthor"
                    ELSE d.author.nickname
    IN  [author_name |-> IF uid \in DOMAIN map THEN map[uid] ELSE nickname,
         desc |-> IF d.desc # <<>> THEN d.desc
                  ELSE IF d.aweme_id # <<>> THEN d.aweme_id
                  ELSE <<"u", "n", "t", "i", "t", "l", "e", "d">>]

\* f"image_{i + 1:02d}" and f"video_{i + 1:02d}"
DigitStr(n) == <<"0", "1", "2", "3", "4", "5", "6", "7", "8", "9">>[n + 1]

Numbered(prefix, i) == <<prefix, DigitStr((i \div 10) % 10), DigitStr(i % 10)>>

\* a download pair: (url_list, save_path)
Pair(url_list, save_path) == [url_list |-> url_list, save_path |-> save_path]

\* DouyinDownloader._process_single_video up to _batch_download: the pairs,
\* or the ValueError it raises
SingleVideoPairs(d, map) ==
    LET m == _extract_metadata(d, map)
        url_list == IF d.video = None THEN <<>> ELSE d.video.url_list
    IN  IF url_list = <<>>
        THEN [ok |-> FALSE, exc |-> "ValueError()"]
        ELSE [ok |-> TRUE,
              pairs |-> <<Pair(url_list,
                               MkPath("videos", m.author_name, <<>>,
                                      _get_safe_filename(m.desc), "mp4"))>>]

\* mutant: the images are numbered as they are kept, without gaps
GalleryPairs_Dense(media_list, i, is_mixed, save_dir) ==
    LET kept == SelectSeq(media_list, LAMBDA item : item.url_list # <<>>)
    IN  [k \in 1..Len(kept) |->
            Pair(kept[k].url_list,
                 [save_dir EXCEPT !.name = Numbered("image_", k),
                                  !.ext = "heic"])]

\* the pair of item i of the media list, <<>> when the item yields none
RECURSIVE GalleryPairs(_, _, _, _)
GalleryPairs(media_list, i, is_mixed, save_dir) ==
    IF i > Len(media_list) THEN <<>>
    ELSE LET item == media_list[i]
             video_urls == IF item.video.play_addr_h264 # <<>>
                           THEN item.video.play_addr_h264
                           ELSE item.video.play_addr
             here ==
                IF is_mixed /\ video_urls # <<>>
                THEN <<Pair(video_urls,
                            [save_dir EXCEPT !.name = Numbered("video_", i),
                                             !.ext = "mp4"])>>
                ELSE IF item.url_list # <<>>
                THEN <<Pair(item.url_list,
                            [save_dir EXCEPT !.name = Numbered("image_", i),
                                             !.ext = "heic"])>>
                ELSE <<>>
         IN  here \o GalleryPairs(media_list, i + 1, is_mixed, save_dir)

\* DouyinDownloader._process_gallery up to _batch_download
ProcessGalleryPairs(d, is_mixed, map) ==
    LET m == _extract_metadata(d, map)
        save_dir == MkPath(IF is_mixed THEN "videos" ELSE "images",
                           m.author_name, _get_safe_filename(m.desc), <<>>, "")
    IN  IF d.images = <<>>
        THEN [ok |-> FALSE, exc |-> "ValueError()"]
        ELSE [ok |-> TRUE, pairs |-> GalleryPairs(d.images, 1, is_mixed, save_dir)]

\* DouyinDownloader.download, step 3: the route taken for aweme_detail
Route(d) ==
    LET has_images == d.images # <<>>
        has_video == d.video # None
        is_images == d.media_type \in {2, 68} \/ (has_images /\ ~has_video)
        is_mixed == d.media_type = 42 \/ (has_images /\ has_video)
        is_video == d.media_type = 4 \/ (has_video /\ ~has_images)
    IN  IF is_images THEN "gallery"
        ELSE IF is_mixed THEN "mixed"
        ELSE IF is_video THEN "video"
        ELSE "unknown"

\* the pairs download hands to _batch_download for aweme_detail d, or the
\* exception raised on the way
PairsOf(d, map) ==
    CASE Route(d) = "gallery" -> ProcessGalleryPairs(d, FALSE, map)
      [] Route(d) = "mixed" -> ProcessGalleryPairs(d, TRUE, map)
      [] Route(d) = "video" -> SingleVideoPairs(d, map)
      [] OTHER -> [ok |-> TRUE, pairs |-> <<>>]

(***************************************************************************)
(* json_manager.py: DataManager.  Both methods run in a worker thread      *)
(* (asyncio.to_thread), so their steps interleave with everything else.    *)
(***************************************************************************)
EmptyFn == [x \in {} |-> x]

\* a function without the argument a
Without(f, a) == [x \in DOMAIN f \ {a} |-> f[x]]

\* base_dir / folder / f"{key}.json"
JsonPath(folder, key) == [tag |-> "path", folder |-> folder, key |-> key]

\* the file a path object names in jsonfs
JsonFile(path) == <<path.folder, path.key>>

\* a file opened for writing and not written yet
Truncated == [tag |-> "truncated"]

\* mutant: save_new_data files every document under the raw identifier
FolderOf_NoRemap(json_data, map) ==
    LET d == DetailOf(json_data)
        author_id == IF d = None THEN "" ELSE d.author.uid
    IN  IF author_id = "" THEN "unknown_author" ELSE author_id

\* save_new_data, step 1: the folder of a document
FolderOf(json_data, map) ==
    LET d == DetailOf(json_data)
        author_id == IF d = None THEN "" ELSE d.author.uid
        folder_name == IF author_id = "" THEN "unknown_author" ELSE author_id
    IN  IF folder_name \in DOMAIN map THEN map[folder_name] ELSE folder_name

\* an exception the thread's call raised
ThreadRaised(exc) == [tag |-> "raise", exc |-> exc]

NoThread ==
    [op |-> "none", step |-> "done", key |-> <<>>, doc |-> None,
     folder |-> "", result |-> None, db_error |-> FALSE]

\* asyncio.to_thread(self.data_manager.get_data_path, cache_key)
CallGetDataPath(key) ==
    [NoThread EXCEPT !.op = "get_data_path", !.step = "call", !.key = key]

\* asyncio.to_thread(self.data_manager.save_new_data, cache_key, data)
CallSaveNewData(key, doc) ==
    [NoThread EXCEPT !.op = "save_new_data", !.step = "call", !.key = key,
                     !.doc = doc]

\* mutant: get_data_path applies the remapping table to the stored folder
StoredFolder_Remapped(key, map) ==
    IF index[key] \in DOMAIN map THEN map[index[key]] ELSE index[key]

\* the folder get_data_path looks in for a row of the index
StoredFolder(key, map) == index[key]

\* mutant: get_data_path trusts the row and skips file_path.exists()
GetDataPath_NoExistsCheck(j, db_ok) ==
    /\ th[j].op = "get_data_path"
    /\ th[j].step = "call"
    /\ LET key == th[j].key
           found == db_ok /\ key \in DOMAIN index
       IN  th' = [th EXCEPT ![j].step = "done",
                            ![j].db_error = ~db_ok,
                            ![j].result =
                               IF found
                               THEN JsonPath(StoredFolder(key, uid_to_name_map), key)
                               ELSE None]
    /\ UNCHANGED <<index, jsonfs, media, uid_to_name_map, dl, lastSave, past>>
    /\ UNCHANGED jobVars

\* mutant: get_data_path deletes the row whose file it finds missing
GetDataPath_DropsStale(j, db_ok) ==
    /\ th[j].op = "get_data_path"
    /\ th[j].step = "call"
    /\ LET key == th[j].key
           row == db_ok /\ key \in DOMAIN index
           found == /\ row
                    /\ <<StoredFolder(key, uid_to_name_map), key>> \in DOMAIN jsonfs
       IN  /\ th' = [th EXCEPT ![j].step = "done",
                               ![j].db_error = ~db_ok,
                               ![j].result =
                                  IF found
                                  THEN JsonPath(StoredFolder(key, uid_to_name_map), key)
                                  ELSE None]
           /\ index' = IF row /\ ~found
                       THEN [k \in DOMAIN index \ {key} |-> index[k]]
                       ELSE index
    /\ UNCHANGED <<jsonfs, media, uid_to_name_map, dl, lastSave, past>>
    /\ UNCHANGED jobVars

\* DataManager.get_data_path; db_ok = FALSE is an SQLAlchemyError of the query
GetDataPath(j, db_ok) ==
    /\ th[j].op = "get_data_path"
    /\ th[j].step = "call"
    /\ LET key == th[j].key
           found == /\ db_ok
                    /\ key \in DOMAIN index
                    /\ <<StoredFolder(key, uid_to_name_map), key>> \in DOMAIN jsonfs
       IN  th' = [th EXCEPT ![j].step = "done",
                            ![j].db_error = ~db_ok,
                            ![j].result =
                               IF found
                               THEN JsonPath(StoredFolder(key, uid_to_name_map), key)
                               ELSE None]
    /\ UNCHANGED <<index, jsonfs, media, uid_to_name_map, dl, lastSave, past>>
    /\ UNCHANGED jobVars

\* DataManager.save_new_data, steps 1 and 2 up to file_path.open("w");
\* fs_ok = FALSE is an OSError of mkdir or open
SaveOpen(j, fs_ok) ==
    /\ th[j].op = "save_new_data"
    /\ th[j].step = "call"
    /\ LET folder_name == FolderOf(th[j].doc, uid_to_name_map)
       IN  IF fs_ok
           THEN /\ jsonfs' = (<<folder_name, th[j].key>> :> Truncated) @@ jsonfs
                /\ th' = [th EXCEPT ![j].step = "opened", ![j].folder = folder_name]
                /\ lastSave' = Without(lastSave, th[j].key)
           ELSE /\ th' = [th EXCEPT ![j].step = "done", ![j].folder = folder_name,
                                    ![j].result = ThreadRaised("OSError()")]
                /\ UNCHANGED <<jsonfs, lastSave>>
    /\ UNCHANGED <<index, media, uid_to_name_map, dl, past>>
    /\ UNCHANGED jobVars

\* json.dump(json_data, f, ensure_ascii=False, indent=4) and the close
SaveDump(j) ==
    /\ th[j].op = "save_new_data"
    /\ th[j].step = "opened"
    /\ jsonfs' = (<<th[j].folder, th[j].key>> :> th[j].doc) @@ jsonfs
    /\ th' = [th EXCEPT ![j].step = "dumped"]
    /\ UNCHANGED <<index, media, uid_to_name_map, dl, lastSave, past>>
    /\ UNCHANGED jobVars

\* mutant: the upsert records the author identifier, not the folder the
\* file was written to
SaveUpsert_RawId(j, db_ok) ==
    /\ th[j].op = "save_new_data"
    /\ th[j].step = "dumped"
    /\ IF db_ok
       THEN /\ index' = (th[j].key :> FolderOf(th[j].doc, EmptyFn)) @@ index
            /\ th' = [th EXCEPT ![j].step = "done",
                                ![j].result = JsonPath(th[j].folder, th[j].key)]
            /\ lastSave' = (th[j].key :>
                              [doc |-> th[j].doc,
                               path |-> JsonPath(th[j].folder, th[j].key)])
                           @@ lastSave
       ELSE /\ th' = [th EXCEPT ![j].step = "done", ![j].db_error = TRUE,
                                ![j].result = ThreadRaised("SQLAlchemyError()")]
            /\ UNCHANGED <<index, lastSave>>
    /\ UNCHANGED <<jsonfs, media, uid_to_name_map, dl, past>>
    /\ UNCHANGED jobVars

\* mutant: the failed upsert is not rolled back, its row stays
SaveUpsert_NoRollback(j, db_ok) ==
    /\ th[j].op = "save_new_data"
    /\ th[j].step = "dumped"
    /\ index' = (th[j].key :> th[j].folder) @@ index
    /\ IF db_ok
       THEN /\ th' = [th EXCEPT ![j].step = "done",
                                ![j].result = JsonPath(th[j].folder, th[j].key)]
            /\ lastSave' = (th[j].key :>
                              [doc |-> th[j].doc,
                               path |-> JsonPath(th[j].folder, th[j].key)])
                           @@ lastSave
       ELSE /\ th' = [th EXCEPT ![j].step = "done", ![j].db_error = TRUE,
                                ![j].result = ThreadRaised("SQLAlchemyError()")]
            /\ UNCHANGED lastSave
    /\ UNCHANGED <<jsonfs, media, uid_to_name_map, dl, past>>
    /\ UNCHANGED jobVars

\* save_new_data, step 3: the upsert in its own session; db_ok = FALSE is
\* an SQLAlchemyError, rolled back and raised
SaveUpsert(j, db_ok) ==
    /\ th[j].op = "save_new_data"
    /\ th[j].step = "dumped"
    /\ IF db_ok
       THEN /\ index' = (th[j].key :> th[j].folder) @@ index
            /\ th' = [th EXCEPT ![j].step = "done",
                                ![j].result = JsonPath(th[j].folder, th[j].key)]
            /\ lastSave' = (th[j].key :>
                              [doc |-> th[j].doc,
                               path |-> JsonPath(th[j].folder, th[j].key)])
                           @@ lastSave
       ELSE /\ th' = [th EXCEPT ![j].step = "done", ![j].db_error = TRUE,
                                ![j].result = ThreadRaised("SQLAlchemyError()")]
            /\ UNCHANGED <<index, lastSave>>
    /\ UNCHANGED <<jsonfs, media, uid_to_name_map, dl, past>>
    /\ UNCHANGED jobVars

(***************************************************************************)
(* downloader.py: DouyinDownloader.download                                *)
(***************************************************************************)
\* no download call of the job has returned
NoPast ==
    [done |-> FALSE, warm |-> FALSE, db_error |-> FALSE, api_calls |-> 0,
     gets |-> 0, all_existed |-> FALSE, none_stale |-> FALSE]

\* the call found every destination of its batch on disk
AllExisted(c) ==
    /\ c.ps # <<>>
    /\ \A k \in DOMAIN c.ps : c.ps[k].existed

\* the call found no .heic destination that lacks its .jpg
NoneStale(c) ==
    \A k \in DOMAIN c.ps :
       Suffix(c.pairs[k].save_path) = "heic" /\ c.ps[k].existed => c.ps[k].had_jpg

NoCall ==
    [phase |-> "idle", parsed |-> [ok |-> FALSE, exc |-> ""], data |-> None,
     warm |-> FALSE, db_error |-> FALSE, hit |-> FALSE, pairs |-> <<>>,
     ps |-> <<>>, outcome |-> Returned(<<>>), caught |-> "", api_calls |-> 0,
     gets |-> 0]

\* a pair's coroutine _download_with_retry: st is where it stands, i the
\* mirror in use, fd its open file ("orphan" once the path no longer names
\* it), existed and had_jpg what it found of its destination and of the
\* .jpg beside it, skipped and ok how it ended
NoPair ==
    [st |-> "start", i |-> 0, fd |-> "none", existed |-> FALSE,
     had_jpg |-> FALSE, skipped |-> FALSE, ok |-> FALSE]

\* the cache holds an entry for key: the index row and its file
CacheHolds(key) ==
    /\ key \in DOMAIN index
    /\ <<index[key], key>> \in DOMAIN jsonfs
    /\ jsonfs[<<index[key], key>>] # Truncated

\* mutant: download lets the exception through
Caught_Reraise(c, exc) ==
    [c EXCEPT !.phase = "returned", !.outcome = Raised(exc), !.caught = exc]

\* download's except Exception: log and return []
Caught(c, exc) ==
    [c EXCEPT !.phase = "returned", !.outcome = Returned(<<>>), !.caught = exc]

\* download from the metadata document to the await of asyncio.gather
AfterData(c, data) ==
    LET d == DetailOf(data)
        r == PairsOf(d, uid_to_name_map)
    IN  IF d = None
        THEN [c EXCEPT !.phase = "returned", !.data = data,
                       !.outcome = Returned(<<>>)]
        ELSE IF ~r.ok THEN Caught([c EXCEPT !.data = data], r.exc)
        ELSE IF r.pairs = <<>>
        THEN [c EXCEPT !.phase = "returned", !.data = data,
                       !.outcome = Returned(<<>>)]
        ELSE [c EXCEPT !.phase = "batch", !.data = data, !.pairs = r.pairs,
                       !.ps = [k \in DOMAIN r.pairs |-> NoPair]]

\* download from its start to the await of the cache lookup
DlStart(j) ==
    /\ pc[j] = "download"
    /\ dl[j].phase = "idle"
    /\ LET r == _parse_input(job[j].video_id)
       IN  IF r.ok
           THEN /\ dl' = [dl EXCEPT ![j].phase = "lookup", ![j].parsed = r,
                                    ![j].warm = CacheHolds(r.cache_key)]
                /\ th' = [th EXCEPT ![j] = CallGetDataPath(r.cache_key)]
           ELSE /\ dl' = [dl EXCEPT ![j] = Caught([@ EXCEPT !.parsed = r], r.exc)]
                /\ UNCHANGED th
    /\ UNCHANGED <<index, jsonfs, media, uid_to_name_map, lastSave, past>>
    /\ UNCHANGED jobVars

\* mutant: _fetch_aweme_data never uses the cached document
CacheHit_Never(json_path) == FALSE

\* if json_path and json_path.exists()
CacheHit(json_path) ==
    json_path # None /\ JsonFile(json_path) \in DOMAIN jsonfs

\* mutant: a lookup whose query failed ends the call
FetchResume_AbortsOnStoreError(j) ==
    /\ dl[j].phase = "lookup"
    /\ th[j].step = "done"
    /\ LET json_path == th[j].result
       IN  IF th[j].db_error
           THEN dl' = [dl EXCEPT ![j] =
                         Caught([@ EXCEPT !.db_error = TRUE], "SQLAlchemyError()")]
           ELSE IF CacheHit(json_path)
           THEN IF jsonfs[JsonFile(json_path)] = Truncated
                THEN dl' = [dl EXCEPT ![j] = Caught(@, "JSONDecodeError()")]
                ELSE dl' = [dl EXCEPT ![j] =
                              AfterData([@ EXCEPT !.hit = TRUE],
                                        jsonfs[JsonFile(json_path)])]
           ELSE dl' = [dl EXCEPT ![j].phase = "api", ![j].api_calls = @ + 1,
                                 ![j].db_error = th[j].db_error]
    /\ UNCHANGED <<index, jsonfs, media, uid_to_name_map, th, lastSave, past>>
    /\ UNCHANGED jobVars

\* _fetch_aweme_data after the cache lookup: the cached document is read, or
\* the request to the metadata API is sent
FetchResume(j) ==
    /\ dl[j].phase = "lookup"
    /\ th[j].step = "done"
    /\ LET json_path == th[j].result
       IN  IF CacheHit(json_path)
           THEN IF jsonfs[JsonFile(json_path)] = Truncated
                THEN \* json.load of a file another thread is writing
                     dl' = [dl EXCEPT ![j] = Caught(@, "JSONDecodeError()")]
                ELSE dl' = [dl EXCEPT ![j] =
                              AfterData([@ EXCEPT !.hit = TRUE],
                                        jsonfs[JsonFile(json_path)])]
           ELSE dl' = [dl EXCEPT ![j].phase = "api", ![j].api_calls = @ + 1,
                                 ![j].db_error = th[j].db_error]
    /\ UNCHANGED <<index, jsonfs, media, uid_to_name_map, th, lastSave, past>>
    /\ UNCHANGED jobVars

\* mutant: _fetch_aweme_data requests the metadata again after an error
ApiRespond_Retries(j, r) ==
    /\ dl[j].phase = "api"
    /\ IF r.kind = "error"
       THEN /\ dl' = [dl EXCEPT ![j].api_calls = @ + 1]
            /\ UNCHANGED th
       ELSE IF r.doc.code = 200
       THEN IF r.doc.data # None
            THEN /\ dl' = [dl EXCEPT ![j].phase = "save", ![j].data = r.doc]
                 /\ th' = [th EXCEPT ![j] =
                             CallSaveNewData(dl[j].parsed.cache_key, r.doc)]
            ELSE /\ dl' = [dl EXCEPT ![j] = AfterData(@, r.doc)]
                 /\ UNCHANGED th
       ELSE /\ dl' = [dl EXCEPT ![j] = Caught(@, "ValueError()")]
            /\ UNCHANGED th
    /\ UNCHANGED <<index, jsonfs, media, uid_to_name_map, lastSave, past>>
    /\ UNCHANGED jobVars

\* the metadata API answers: r.kind = "error" is a network or HTTP error,
\* otherwise r.doc is the JSON body
ApiRespond(j, r) ==
    /\ dl[j].phase = "api"
    /\ IF r.kind = "error"
       THEN /\ dl' = [dl EXCEPT ![j] = Caught(@, "ClientError()")]
            /\ UNCHANGED th
       ELSE IF r.doc.code = 200
       THEN IF r.doc.data # None
            THEN /\ dl' = [dl EXCEPT ![j].phase = "save", ![j].data = r.doc]
                 /\ th' = [th EXCEPT ![j] =
                             CallSaveNewData(dl[j].parsed.cache_key, r.doc)]
            ELSE /\ dl' = [dl EXCEPT ![j] = AfterData(@, r.doc)]
                 /\ UNCHANGED th
       ELSE /\ dl' = [dl EXCEPT ![j] = Caught(@, "ValueError()")]
            /\ UNCHANGED th
    /\ UNCHANGED <<index, jsonfs, media, uid_to_name_map, lastSave, past>>
    /\ UNCHANGED jobVars

\* _fetch_aweme_data after save_new_data
SaveResume(j) ==
    /\ dl[j].phase = "save"
    /\ th[j].step = "done"
    /\ dl' = [dl EXCEPT ![j] =
                IF th[j].result.tag = "path"
                THEN AfterData(@, dl[j].data)
                ELSE Caught(@, th[j].result.exc)]
    /\ UNCHANGED <<index, jsonfs, media, uid_to_name_map, th, lastSave, past>>
    /\ UNCHANGED jobVars

(***************************************************************************)
(* downloader.py: _batch_download, _download_with_retry, _download_file    *)
(* and heic_to_jpg.  media maps a path that exists to what its file holds. *)
(***************************************************************************)
\* Path.exists()
Exists(p) == p \in DOMAIN media

\* save_path.with_suffix(".jpg")
WithSuffix(p, ext) == [p EXCEPT !.ext = ext]

\* Path.unlink() guarded by Path.exists()
Unlinked(m, p) == IF p \in DOMAIN m THEN Without(m, p) ELSE m

\* what unlinking p does to the writers that hold its file open: the path
\* no longer names their file
Orphaned(d, p) ==
    [j \in DOMAIN d |->
       [d[j] EXCEPT !.ps =
          [k \in DOMAIN d[j].ps |->
             IF d[j].pairs[k].save_path = p /\ d[j].ps[k].fd = "open"
             THEN [d[j].ps[k] EXCEPT !.fd = "orphan"]
             ELSE d[j].ps[k]]]]

\* save_path.open("wb"): an existing file is truncated, a missing one is
\* created
OpenedWb(m, p) == (p :> "empty") @@ m

\* f.write(...) through a descriptor in state fd: seen at p while p names
\* the file
Written(m, p, fd) == IF fd = "open" THEN (p :> "data") @@ m ELSE m

\* the outcomes of a conversion: done, an exception before the .jpg is
\* saved, an exception of img_path.unlink() after it is saved
Conversions == {"ok", "fail", "kept"}

\* whether heic_to_jpg(img_path) gets to save the .jpg: an empty file
\* cannot be read as HEIF
Converts(m, img_path, conv) ==
    /\ img_path \in DOMAIN m
    /\ Suffix(img_path) = "heic"
    /\ conv # "fail"
    /\ m[img_path] = "data"

\* heic_to_jpg(img_path) with outcome conv; every exception is logged
heic_to_jpg(m, img_path, conv) ==
    IF Converts(m, img_path, conv)
    THEN LET saved == (WithSuffix(img_path, "jpg") :> "data") @@ m
         IN  IF conv = "ok" THEN Without(saved, img_path) ELSE saved
    ELSE m

\* mutant: _download_with_retry never skips
Skips_Never(save_path) == FALSE

\* mutant: every existing destination is skipped, a .heic without its .jpg
\* too
Skips_AnyExisting(save_path) == Exists(save_path)

\* _download_with_retry: the existing destination that is not downloaded
\* again
Skips(save_path) ==
    /\ Exists(save_path)
    /\ ~ (/\ Suffix(save_path) = "heic"
          /\ ~Exists(WithSuffix(save_path, "jpg")))

\* _download_with_retry from its start to its first await
PairStart(j, k) ==
    /\ dl[j].phase = "batch"
    /\ k \in DOMAIN dl[j].ps
    /\ dl[j].ps[k].st = "start"
    /\ LET pair == dl[j].pairs[k]
           found == [dl[j].ps[k] EXCEPT
                       !.existed = Exists(pair.save_path),
                       !.had_jpg = Exists(WithSuffix(pair.save_path, "jpg"))]
       IN  IF Skips(pair.save_path)
           THEN dl' = [dl EXCEPT ![j].ps[k] =
                         [found EXCEPT !.st = "done", !.skipped = TRUE, !.ok = TRUE]]
           ELSE IF pair.url_list = <<>>
           THEN dl' = [dl EXCEPT ![j].ps[k] = [found EXCEPT !.st = "done"]]
           ELSE dl' = [dl EXCEPT ![j].ps[k] = [found EXCEPT !.st = "get", !.i = 1],
                                 ![j].gets = @ + 1]
    /\ UNCHANGED <<index, jsonfs, media, uid_to_name_map, th, lastSave, past>>
    /\ UNCHANGED jobVars

\* mutant: the retry loop gives up after the first mirror that fails
NextMirror_GivesUp(c, k) ==
    [c EXCEPT !.ps[k].st = "done", !.ps[k].fd = "none"]

\* the except branch of the retry loop: the next mirror is requested, or
\* ConnectionError ends the pair
NextMirror(c, k) ==
    IF c.ps[k].i < Len(c.pairs[k].url_list)
    THEN [c EXCEPT !.ps[k].st = "get", !.ps[k].i = @ + 1, !.ps[k].fd = "none",
                   !.gets = @ + 1]
    ELSE [c EXCEPT !.ps[k].st = "done", !.ps[k].fd = "none"]

\* _download_file: the answer to session.get; ok = FALSE is a network error
\* or an error status
PairGet(j, k, ok) ==
    /\ dl[j].phase = "batch"
    /\ k \in DOMAIN dl[j].ps
    /\ dl[j].ps[k].st = "get"
    /\ LET save_path == dl[j].pairs[k].save_path
       IN  IF ok
           THEN /\ media' = OpenedWb(media, save_path)
                /\ dl' = [dl EXCEPT ![j].ps[k].st = "read", ![j].ps[k].fd = "open"]
           ELSE /\ media' = Unlinked(media, save_path)
                /\ dl' = [Orphaned(dl, save_path) EXCEPT ![j] = NextMirror(@, k)]
    /\ UNCHANGED <<index, jsonfs, uid_to_name_map, th, lastSave, past>>
    /\ UNCHANGED jobVars

\* mutant: the except branch of _download_file does not unlink save_path
PairRead_KeepsPartial(j, k, ok, conv) ==
    /\ dl[j].phase = "batch"
    /\ k \in DOMAIN dl[j].ps
    /\ dl[j].ps[k].st = "read"
    /\ LET save_path == dl[j].pairs[k].save_path
           written == Written(media, save_path, dl[j].ps[k].fd)
           closed == [dl EXCEPT ![j].ps[k].fd = "none"]
       IN  IF ok
           THEN /\ media' = heic_to_jpg(written, save_path, conv)
                /\ dl' = [(IF Converts(written, save_path, conv) /\ conv = "ok"
                           THEN Orphaned(closed, save_path)
                           ELSE closed)
                          EXCEPT ![j].ps[k].st = "done", ![j].ps[k].ok = TRUE]
           ELSE /\ media' = media
                /\ dl' = [closed EXCEPT ![j] = NextMirror(@, k)]
    /\ UNCHANGED <<index, jsonfs, uid_to_name_map, th, lastSave, past>>
    /\ UNCHANGED jobVars

\* _download_file after await response.read(); ok = FALSE is an error of
\* the read, conv the outcome of the conversion of a .heic file
PairRead(j, k, ok, conv) ==
    /\ dl[j].phase = "batch"
    /\ k \in DOMAIN dl[j].ps
    /\ dl[j].ps[k].st = "read"
    /\ LET save_path == dl[j].pairs[k].save_path
           written == Written(media, save_path, dl[j].ps[k].fd)
           closed == [dl EXCEPT ![j].ps[k].fd = "none"]
       IN  IF ok
           THEN /\ media' = heic_to_jpg(written, save_path, conv)
                /\ dl' = [(IF Converts(written, save_path, conv) /\ conv = "ok"
                           THEN Orphaned(closed, save_path)
                           ELSE closed)
                          EXCEPT ![j].ps[k].st = "done", ![j].ps[k].ok = TRUE]
           ELSE /\ media' = Unlinked(media, save_path)
                /\ dl' = [Orphaned(closed, save_path) EXCEPT ![j] = NextMirror(@, k)]
    /\ UNCHANGED <<index, jsonfs, uid_to_name_map, th, lastSave, past>>
    /\ UNCHANGED jobVars

\* the destinations of the pairs, in order
Destinations(pairs) == [k \in DOMAIN pairs |-> pairs[k].save_path]

\* [p for p in downloaded_paths if p.exists()]
ExistingPaths(downloaded_paths) ==
    LET Here(p) == Exists(p)
    IN  SelectSeq(downloaded_paths, Here)

\* mutant: _batch_download returns as soon as one of its downloads is over
BatchFinish_FirstDone(j) ==
    /\ dl[j].phase = "batch"
    /\ \E k \in DOMAIN dl[j].ps : dl[j].ps[k].st = "done"
    /\ dl' = [dl EXCEPT ![j].phase = "returned",
                        ![j].outcome =
                           Returned(ExistingPaths(Destinations(dl[j].pairs)))]
    /\ UNCHANGED <<index, jsonfs, media, uid_to_name_map, th, lastSave, past>>
    /\ UNCHANGED jobVars

\* _batch_download after asyncio.gather, and the return of download
BatchFinish(j) ==
    /\ dl[j].phase = "batch"
    /\ \A k \in DOMAIN dl[j].ps : dl[j].ps[k].st = "done"
    /\ dl' = [dl EXCEPT ![j].phase = "returned",
                        ![j].outcome =
                           Returned(ExistingPaths(Destinations(dl[j].pairs)))]
    /\ UNCHANGED <<index, jsonfs, media, uid_to_name_map, th, lastSave, past>>
    /\ UNCHANGED jobVars

(***************************************************************************)
(* The orchestration specifications.  Downloader and transcriber are the   *)
(* collaborators a Task holds: an awaited call of one ends with one of the *)
(* outcomes enumerated here.                                               *)
(***************************************************************************)
VideoFile == MkPath("videos", "author", <<>>, <<"t">>, "mp4")
ImageFile == MkPath("images", "author", <<"t">>, <<"image_", "0", "1">>, "heic")

DownloadOutcomes ==
    {Returned(<<>>), Returned(<<VideoFile>>), Returned(<<ImageFile>>),
     Returned(<<ImageFile, VideoFile>>), Raised("Exception()")}

TranscribeOutcomes == {Returned("text"), Returned(""), Raised("RuntimeError()")}

\* the outcomes kept where only the gate and the registry are of interest
GateDownloadOutcomes == {Returned(<<>>), Returned(<<VideoFile>>)}
GateTranscribeOutcomes == {Returned("text"), Raised("RuntimeError()")}

SomeText == <<"x">>

\* the jobs, the gate and the calls of a process that has just started
InitProcess ==
    /\ tasks = {}
    /\ job = [j \in JobIds |-> NoJob]
    /\ variant = [j \in JobIds |-> ""]
    /\ pc = [j \in JobIds |-> "idle"]
    /\ semValue = GateSize
    /\ semWaiters = <<>>
    /\ now = 0
    /\ files = [j \in JobIds |-> <<>>]
    /\ transcribed = [j \in JobIds |-> <<>>]
    /\ th = [j \in JobIds |-> NoThread]
    /\ dl = [j \in JobIds |-> NoCall]
    /\ lastSave = EmptyFn
    /\ past = [j \in JobIds |-> NoPast]

\* a first start: an empty index, empty directories, no remapping
Init ==
    /\ InitProcess
    /\ index = EmptyFn
    /\ jsonfs = EmptyFn
    /\ media = EmptyFn
    /\ uid_to_name_map = EmptyFn

\* MaxJobs submissions on the gate of main.py
NextGate ==
    \/ \E j \in JobIds, cls \in TaskClasses : Submit(j, cls, SomeText)
    \/ \E j \in JobIds : RunTask(j)
    \/ \E j \in JobIds : Admit(j)
    \/ \E j \in JobIds, o \in GateDownloadOutcomes : DownloadDone(j, o)
    \/ \E j \in JobIds, t \in GateTranscribeOutcomes : TranscribeDone(j, t)
    \/ Tick

SpecGate == Init /\ [][NextGate]_vars

\* The gate alone, the clock standing still: no job is evicted.
NextQueue ==
    \/ \E j \in JobIds, cls \in TaskClasses : Submit(j, cls, SomeText)
    \/ \E j \in JobIds : RunTask(j)
    \/ \E j \in JobIds : Admit(j)
    \/ \E j \in JobIds, o \in GateDownloadOutcomes : DownloadDone(j, o)
    \/ \E j \in JobIds, t \in GateTranscribeOutcomes : TranscribeDone(j, t)

\* The event loop runs every ready coroutine (asyncio's ready queue is
\* first in, first out), and every network or transcription call ends
\* with a result or a timeout.
FairQueue ==
    /\ Init /\ [][NextQueue]_vars
    /\ \A j \in JobIds :
          /\ WF_vars(RunTask(j))
          /\ WF_vars(Admit(j))
          /\ WF_vars(\E o \in GateDownloadOutcomes : DownloadDone(j, o))
          /\ WF_vars(\E t \in GateTranscribeOutcomes : TranscribeDone(j, t))

\* The gate with the clock running, so that jobs are evicted while they
\* wait and run: MaxJobs download jobs under the scheduling of FairQueue.
NextEvict ==
    \/ \E j \in JobIds : Submit(j, "DownloadTask", SomeText)
    \/ \E j \in JobIds : RunTask(j)
    \/ \E j \in JobIds : Admit(j)
    \/ \E j \in JobIds, o \in GateDownloadOutcomes : DownloadDone(j, o)
    \/ Tick

FairEvict ==
    /\ Init /\ [][NextEvict]_vars
    /\ \A j \in JobIds :
          /\ WF_vars(RunTask(j))
          /\ WF_vars(Admit(j))
          /\ WF_vars(\E o \in GateDownloadOutcomes : DownloadDone(j, o))

\* MaxRuns submissions with every outcome of the collaborators; with
\* MaxRuns <= GateSize no job ever waits for a slot, so Admit is never enabled
NextLife ==
    \/ \E j \in 1..MaxRuns, cls \in TaskClasses : Submit(j, cls, SomeText)
    \/ \E j \in JobIds : RunTask(j)
    \/ \E j \in JobIds, o \in DownloadOutcomes : DownloadDone(j, o)
    \/ \E j \in JobIds, t \in TranscribeOutcomes : TranscribeDone(j, t)
    \/ Tick

SpecLife == Init /\ [][NextLife]_vars

(***************************************************************************)
(* The retrieval pipeline: jobs whose download is the code of              *)
(* downloader.py, against a metadata API, media mirrors, a filesystem and  *)
(* an index store that answer as they please.                              *)
(***************************************************************************)
\* the texts submitted: an aweme_id, a share text, and one that is neither
IdText == [i \in 1..19 |-> "7"]
LinkText == <<" ", "a", HOST, "a", "Z", "/", " ">>
BadText == <<"x", "1">>
RetrieveTexts == {IdText, LinkText, BadText}

\* the works the API knows: a single video with two mirrors, a gallery of
\* two images, a mixed gallery of a clip and an image
VideoDetail ==
    AwemeDetail(IdText, <<"t">>, 4, "10086", "nick", Video(<<"u1", "u2">>), <<>>)
GalleryDetail ==
    AwemeDetail(IdText, <<"t">>, 2, "10086", "nick", None,
                <<ImageItem(<<"u3">>, <<>>, <<>>), ImageItem(<<"u4">>, <<>>, <<>>)>>)
MixedDetail ==
    AwemeDetail(IdText, <<"t">>, 42, "10086", "nick", Video(<<"u1">>),
                <<ImageItem(<<"u3">>, <<"u5">>, <<>>), ImageItem(<<"u4">>, <<>>, <<>>)>>)
Details == {VideoDetail, GalleryDetail, MixedDetail}

\* the answers of the metadata API
JsonAnswer(doc) == [kind |-> "json", doc |-> doc]
ApiAnswers ==
    {[kind |-> "error"], JsonAnswer(ApiDoc(400, None)), JsonAnswer(ApiDoc(200, None))}
    \cup {JsonAnswer(ApiDoc(200, [aweme_detail |-> d])) : d \in Details}

\* download returns to the run that awaits it
DownloadReturn(j) ==
    /\ dl[j].phase = "returned"
    /\ DownloadResume(j, dl[j].outcome)
    /\ dl' = [dl EXCEPT ![j] = NoCall]
    /\ th' = [th EXCEPT ![j] = NoThread]
    /\ past' = [past EXCEPT ![j] =
                  [done |-> TRUE, warm |-> dl[j].warm, db_error |-> dl[j].db_error,
                   api_calls |-> dl[j].api_calls, gets |-> dl[j].gets,
                   all_existed |-> AllExisted(dl[j]),
                   none_stale |-> NoneStale(dl[j])]]
    /\ UNCHANGED <<index, jsonfs, media, uid_to_name_map, lastSave>>

\* no job is between its submission and the end of its run
Quiet == \A j \in JobIds : pc[j] \in {"idle", "returned", "raised"}

\* MaxCalls jobs of a client that submits a job when the one before is over
NextRetrieve ==
    \/ \E j \in 1..MaxCalls, cls \in TaskClasses, text \in RetrieveTexts :
          Quiet /\ Submit(j, cls, text)
    \/ \E j \in JobIds : RunTask(j)
    \/ \E j \in JobIds : DlStart(j)
    \/ \E j \in JobIds, db_ok \in BOOLEAN : GetDataPath(j, db_ok)
    \/ \E j \in JobIds : FetchResume(j)
    \/ \E j \in JobIds, r \in ApiAnswers : ApiRespond(j, r)
    \/ \E j \in JobIds, fs_ok \in BOOLEAN : SaveOpen(j, fs_ok)
    \/ \E j \in JobIds : SaveDump(j)
    \/ \E j \in JobIds, db_ok \in BOOLEAN : SaveUpsert(j, db_ok)
    \/ \E j \in JobIds : SaveResume(j)
    \/ \E j \in JobIds, k \in 1..MaxPairs : PairStart(j, k)
    \/ \E j \in JobIds, k \in 1..MaxPairs, ok \in BOOLEAN : PairGet(j, k, ok)
    \/ \E j \in JobIds, k \in 1..MaxPairs, ok \in BOOLEAN, conv \in Conversions :
          PairRead(j, k, ok, conv)
    \/ \E j \in JobIds : BatchFinish(j)
    \/ \E j \in JobIds : DownloadReturn(j)
    \/ \E j \in JobIds, t \in TranscribeOutcomes : TranscribeDone(j, t)

\* a start on the store an earlier process left: nothing, or the entry of
\* the work IdText names, saved without remapping
InitRetrieve ==
    /\ InitProcess
    /\ \/ index = EmptyFn /\ jsonfs = EmptyFn
       \/ \E d \in Details :
             /\ index = (IdText :> d.author.uid)
             /\ jsonfs = (<<d.author.uid, IdText>> :>
                            ApiDoc(200, [aweme_detail |-> d]))
    /\ media = EmptyFn
    /\ uid_to_name_map = EmptyFn

SpecRetrieve == InitRetrieve /\ [][NextRetrieve]_vars

(***************************************************************************)
(* One job on a first start, over every shape of document: each type tag   *)
(* with each combination of the video and images fields.                   *)
(***************************************************************************)
\* media_type: 0 stands for a document without the key, 99 for a tag the
\* code does not know
ShapeTags == {0, 2, 4, 42, 68, 99}
\* aweme_detail["video"]: absent, without a play address, with one
ShapeVideos == {None, Video(<<>>), Video(<<"u1">>)}
\* aweme_detail["images"]: absent, an item without addresses, an image, an
\* item that holds a clip
ShapeImages ==
    {<<>>,
     <<ImageItem(<<>>, <<>>, <<>>)>>,
     <<ImageItem(<<"u3">>, <<>>, <<>>)>>,
     <<ImageItem(<<"u3">>, <<"u5">>, <<>>)>>}
ShapeDetails ==
    {AwemeDetail(IdText, <<"t">>, tag, "10086", "nick", v, imgs) :
        tag \in ShapeTags, v \in ShapeVideos, imgs \in ShapeImages}
ShapeAnswers == {JsonAnswer(ApiDoc(200, [aweme_detail |-> d])) : d \in ShapeDetails}

NextShapes ==
    \/ \E cls \in TaskClasses : Submit(1, cls, IdText)
    \/ RunTask(1)
    \/ DlStart(1)
    \/ \E db_ok \in BOOLEAN : GetDataPath(1, db_ok)
    \/ FetchResume(1)
    \/ \E r \in ShapeAnswers : ApiRespond(1, r)
    \/ \E fs_ok \in BOOLEAN : SaveOpen(1, fs_ok)
    \/ SaveDump(1)
    \/ \E db_ok \in BOOLEAN : SaveUpsert(1, db_ok)
    \/ SaveResume(1)
    \/ \E k \in 1..MaxPairs : PairStart(1, k)
    \/ \E k \in 1..MaxPairs, ok \in BOOLEAN : PairGet(1, k, ok)
    \/ \E k \in 1..MaxPairs, ok \in BOOLEAN, conv \in Conversions : PairRead(1, k, ok, conv)
    \/ BatchFinish(1)
    \/ DownloadReturn(1)
    \/ \E t \in TranscribeOutcomes : TranscribeDone(1, t)

SpecShapes == Init /\ [][NextShapes]_vars

(***************************************************************************)
(* The cache index alone, as the test at the end of json_manager.py drives *)
(* it: one call at a time, and between two calls the process may have been *)
(* restarted with another remapping table.                                 *)
(***************************************************************************)
\* a work whose author has no uid
AnonDetail ==
    AwemeDetail(IdText, <<"t">>, 4, "", "nick", Video(<<"u1">>), <<>>)

CacheKeys == {IdText}
CacheDocs ==
    {ApiDoc(200, [aweme_detail |-> d]) : d \in {VideoDetail, GalleryDetail, AnonDetail}}
Maps ==
    {EmptyFn, "10086" :> "Alice", ("10086" :> "Bob") @@ ("unknown_author" :> "Nobody")}

\* no call of the data manager is under way
Idle == th[1].step = "done"

\* manager.save_new_data(key, doc) is called
CacheSave(key, doc) ==
    /\ Idle
    /\ th' = [th EXCEPT ![1] = CallSaveNewData(key, doc)]
    /\ UNCHANGED <<index, jsonfs, media, uid_to_name_map, dl, lastSave, past>>
    /\ UNCHANGED jobVars

\* manager.get_data_path(key) is called
CacheLookup(key) ==
    /\ Idle
    /\ th' = [th EXCEPT ![1] = CallGetDataPath(key)]
    /\ UNCHANGED <<index, jsonfs, media, uid_to_name_map, dl, lastSave, past>>
    /\ UNCHANGED jobVars

\* UID_TO_NAME_MAP is edited and the process restarted
ChangeMap(m) ==
    /\ Idle
    /\ m # uid_to_name_map
    /\ uid_to_name_map' = m
    /\ th' = [th EXCEPT ![1] = NoThread]
    /\ UNCHANGED <<index, jsonfs, media, dl, lastSave, past>>
    /\ UNCHANGED jobVars

NextCache ==
    \/ \E key \in CacheKeys, doc \in CacheDocs : CacheSave(key, doc)
    \/ \E key \in CacheKeys : CacheLookup(key)
    \/ \E m \in Maps : ChangeMap(m)
    \/ \E db_ok \in BOOLEAN : GetDataPath(1, db_ok)
    \/ \E fs_ok \in BOOLEAN : SaveOpen(1, fs_ok)
    \/ SaveDump(1)
    \/ \E db_ok \in BOOLEAN : SaveUpsert(1, db_ok)

SpecCache == Init /\ [][NextCache]_vars

(***************************************************************************)
(* _parse_input over texts of every kind: runs of digits around the bounds *)
(* of the pattern, share texts with and without a short code, padded with  *)
(* whitespace or not.  A job is submitted with the text and runs up to the *)
(* first await of download.                                                *)
(***************************************************************************)
\* the longest run of digits; the shortest has 17, one less than the pattern
\* asks for
MaxDigits == 21

Digits(n) == [i \in 1..n |-> "7"]

\* what stands before v.douyin.com/, the characters after it, and the rest
LinkPrefixes == {<<>>, <<"a">>, Digits(19) \o <<" ">>}
LinkCodes == {<<>>, <<"a", "Z">>, <<"1", "b">>}
LinkSuffixes == {<<>>, <<"/">>, <<"-", "a">>}

ParseBodies ==
    {Digits(n) : n \in 17..MaxDigits}
    \cup {Digits(18) \o <<"a">>, Digits(9) \o <<" ">> \o Digits(9), <<>>, <<"x">>,
          <<HOST, "-", HOST, "b", "/", HOST, "a">>}
    \cup {pre \o <<HOST>> \o code \o suf :
            pre \in LinkPrefixes, code \in LinkCodes, suf \in LinkSuffixes}

Paddings == {<<>>, <<" ">>, <<" ", " ">>}

ParseTexts == {l \o b \o r : l \in Paddings, b \in ParseBodies, r \in Paddings}

NextParse ==
    \/ \E cls \in TaskClasses, text \in ParseTexts : Submit(1, cls, text)
    \/ RunTask(1)
    \/ DlStart(1)

SpecParse == Init /\ [][NextParse]_vars

(***************************************************************************)
(* Two jobs for one work, admitted together: the gate has room for both,   *)
(* so their calls of download overlap.  The document is in the cache and   *)
(* the index store answers, which leaves the mirrors and the filesystem as *)
(* the only sources of different outcomes.                                 *)
(***************************************************************************)
InitRace ==
    /\ InitProcess
    /\ \E d \in {VideoDetail, GalleryDetail} :
          /\ index = (IdText :> d.author.uid)
          /\ jsonfs = (<<d.author.uid, IdText>> :> ApiDoc(200, [aweme_detail |-> d]))
    /\ media = EmptyFn
    /\ uid_to_name_map = EmptyFn

NextRace ==
    \/ \E j \in 1..MaxCalls, cls \in TaskClasses : Submit(j, cls, IdText)
    \/ \E j \in JobIds : RunTask(j)
    \/ \E j \in JobIds : DlStart(j)
    \/ \E j \in JobIds : GetDataPath(j, TRUE)
    \/ \E j \in JobIds : FetchResume(j)
    \/ \E j \in JobIds, k \in 1..MaxPairs : PairStart(j, k)
    \/ \E j \in JobIds, k \in 1..MaxPairs, ok \in BOOLEAN : PairGet(j, k, ok)
    \/ \E j \in JobIds, k \in 1..MaxPairs, ok \in BOOLEAN, conv \in Conversions :
          PairRead(j, k, ok, conv)
    \/ \E j \in JobIds : BatchFinish(j)
    \/ \E j \in JobIds : DownloadReturn(j)
    \/ \E j \in JobIds, t \in TranscribeOutcomes : TranscribeDone(j, t)

SpecRace == InitRace /\ [][NextRace]_vars

(***************************************************************************)
(* The data manager started on what an earlier process and its operator    *)
(* left behind: any row of the index, any JSON files under the base        *)
(* directory (files may have been moved or removed by hand), any table.    *)
(***************************************************************************)
StoreFolders == {"10086", "Alice", "unknown_author"}

InitStore ==
    /\ InitProcess
    /\ index \in {EmptyFn} \cup {(IdText :> f) : f \in StoreFolders}
    /\ \E fs \in SUBSET StoreFolders :
          jsonfs = [p \in {<<f, IdText>> : f \in fs} |->
                      ApiDoc(200, [aweme_detail |-> VideoDetail])]
    /\ media = EmptyFn
    /\ uid_to_name_map \in Maps

SpecStore == InitStore /\ [][NextCache]_vars

(***************************************************************************)
(* The data manager called from several worker threads at once, as the     *)
(* downloads of jobs admitted together call it: saves and lookups of one   *)
(* key overlap step by step.                                               *)
(***************************************************************************)
MaxWriters == 2

\* thread j is free for a call
Free(j) == th[j].step = "done"

\* asyncio.to_thread(save_new_data, key, doc) on thread j
ThreadSave(j, key, doc) ==
    /\ Free(j)
    /\ th' = [th EXCEPT ![j] = CallSaveNewData(key, doc)]
    /\ UNCHANGED <<index, jsonfs, media, uid_to_name_map, dl, lastSave, past>>
    /\ UNCHANGED jobVars

\* asyncio.to_thread(get_data_path, key) on thread j
ThreadLookup(j, key) ==
    /\ Free(j)
    /\ th' = [th EXCEPT ![j] = CallGetDataPath(key)]
    /\ UNCHANGED <<index, jsonfs, media, uid_to_name_map, dl, lastSave, past>>
    /\ UNCHANGED jobVars

InitSaves ==
    /\ InitProcess
    /\ index = EmptyFn
    /\ jsonfs = EmptyFn
    /\ media = EmptyFn
    /\ uid_to_name_map \in Maps

NextSaves ==
    \/ \E j \in 1..MaxWriters, key \in CacheKeys, doc \in CacheDocs : ThreadSave(j, key, doc)
    \/ \E j \in 1..MaxWriters, key \in CacheKeys : ThreadLookup(j, key)
    \/ \E j \in 1..MaxWriters, db_ok \in BOOLEAN : GetDataPath(j, db_ok)
    \/ \E j \in 1..MaxWriters, fs_ok \in BOOLEAN : SaveOpen(j, fs_ok)
    \/ \E j \in 1..MaxWriters : SaveDump(j)
    \/ \E j \in 1..MaxWriters, db_ok \in BOOLEAN : SaveUpsert(j, db_ok)

SpecSaves == InitSaves /\ [][NextSaves]_vars

(***************************************************************************)
(* One job on a first start, over galleries of up to MaxItems items of     *)
(* every kind, followed up to the pairs handed to _batch_download.         *)
(***************************************************************************)
MaxItems == 3

\* the extension the address of an image ends with
UrlExt(u) ==
    CASE u = "u3" -> "webp"
      [] u = "u4" -> "jpeg"
      [] u = "u6" -> "heic"
      [] OTHER -> ""

\* an item of images: without addresses, an image of each extension, an
\* item that holds a clip and no image address
GalleryItems ==
    {ImageItem(<<>>, <<>>, <<>>),
     ImageItem(<<"u3">>, <<>>, <<>>),
     ImageItem(<<"u4">>, <<>>, <<>>),
     ImageItem(<<"u6">>, <<>>, <<>>),
     ImageItem(<<>>, <<"u5">>, <<>>)}
GalleryLists == UNION {[1..n -> GalleryItems] : n \in 0..MaxItems}
GalleryDetails ==
    {AwemeDetail(IdText, <<"t">>, tag, "10086", "nick", v, imgs) :
        tag \in {0, 2, 68}, v \in {None, Video(<<"u1">>)}, imgs \in GalleryLists}
GalleryAnswers ==
    {JsonAnswer(ApiDoc(200, [aweme_detail |-> d])) : d \in GalleryDetails}

InitGallery ==
    /\ InitProcess
    /\ index = EmptyFn
    /\ jsonfs = EmptyFn
    /\ media = EmptyFn
    /\ uid_to_name_map \in Maps

NextGallery ==
    \/ \E cls \in TaskClasses : Submit(1, cls, IdText)
    \/ RunTask(1)
    \/ DlStart(1)
    \/ \E db_ok \in BOOLEAN : GetDataPath(1, db_ok)
    \/ FetchResume(1)
    \/ \E r \in GalleryAnswers : ApiRespond(1, r)
    \/ \E fs_ok \in BOOLEAN : SaveOpen(1, fs_ok)
    \/ SaveDump(1)
    \/ \E db_ok \in BOOLEAN : SaveUpsert(1, db_ok)
    \/ SaveResume(1)

SpecGallery == InitGallery /\ [][NextGallery]_vars

(***************************************************************************)
(* Calls that follow one another on one identifier, the metadata API       *)
(* answering also with a body whose data object has no aweme_detail (a     *)
(* work that was removed).                                                 *)
(***************************************************************************)
\* {"code": 200, "data": {"aweme_detail": null, ...}}
DetaillessDoc == ApiDoc(200, [aweme_detail |-> None])

PersistAnswers ==
    {[kind |-> "error"], JsonAnswer(ApiDoc(200, None)), JsonAnswer(DetaillessDoc),
     JsonAnswer(ApiDoc(200, [aweme_detail |-> VideoDetail]))}

NextPersist ==
    \/ \E j \in 1..MaxCalls, cls \in TaskClasses : Quiet /\ Submit(j, cls, IdText)
    \/ \E j \in JobIds : RunTask(j)
    \/ \E j \in JobIds : DlStart(j)
    \/ \E j \in JobIds, db_ok \in BOOLEAN : GetDataPath(j, db_ok)
    \/ \E j \in JobIds : FetchResume(j)
    \/ \E j \in JobIds, r \in PersistAnswers : ApiRespond(j, r)
    \/ \E j \in JobIds, fs_ok \in BOOLEAN : SaveOpen(j, fs_ok)
    \/ \E j \in JobIds : SaveDump(j)
    \/ \E j \in JobIds, db_ok \in BOOLEAN : SaveUpsert(j, db_ok)
    \/ \E j \in JobIds : SaveResume(j)
    \/ \E j \in JobIds, k \in 1..MaxPairs : PairStart(j, k)
    \/ \E j \in JobIds, k \in 1..MaxPairs, ok \in BOOLEAN : PairGet(j, k, ok)
    \/ \E j \in JobIds, k \in 1..MaxPairs, ok \in BOOLEAN, conv \in Conversions :
          PairRead(j, k, ok, conv)
    \/ \E j \in JobIds : BatchFinish(j)
    \/ \E j \in JobIds : DownloadReturn(j)
    \/ \E j \in JobIds, t \in TranscribeOutcomes : TranscribeDone(j, t)

SpecPersist == Init /\ [][NextPersist]_vars

(***************************************************************************)
(* One job whose download returns any list of up to MaxFiles files, of     *)
(* every extension in every order.                                         *)
(***************************************************************************)
MaxFiles == 3

FileExts == {"mp4", "mov", "mkv", "heic", "jpg"}

\* the file at position i of a returned list, with extension ext
FileAt(i, ext) == MkPath("videos", "author", <<"t">>, <<"f", DigitStr(i)>>, ext)

FileLists ==
    UNION {{[i \in 1..n |-> FileAt(i, exts[i])] : exts \in [1..n -> FileExts]} :
             n \in 1..MaxFiles}

PickOutcomes == {Returned(fs) : fs \in FileLists}

NextPick ==
    \/ \E cls \in TaskClasses : Submit(1, cls, SomeText)
    \/ RunTask(1)
    \/ \E o \in PickOutcomes : DownloadDone(1, o)
    \/ \E t \in TranscribeOutcomes : TranscribeDone(1, t)

SpecPick == Init /\ [][NextPick]_vars

(***************************************************************************)
(* C1  Admission bound: with the gate of size GateSize and MaxJobs >       *)
(* GateSize submitted jobs, at most GateSize jobs are in Processing state  *)
(* in any reachable state.                                                 *)
(***************************************************************************)
Processing == {j \in JobIds : job[j].status = PROCESSING}

C1_AdmissionBound == Cardinality(Processing) <= GateSize

\* the gate is full and a further job waits for a slot
C1_Witness ==
    /\ Cardinality(Processing) = GateSize
    /\ \E j \in JobIds : pc[j] = "waiting"

(***************************************************************************)
(* C2  Job status state machine: a job is created Pending, and the only    *)
(* status changes are Pending -> Processing, Processing -> Completed and   *)
(* Processing -> Failed (so Completed and Failed are never left), for both *)
(* Task variants and every outcome of download and transcription.          *)
(***************************************************************************)
StatusSteps ==
    {<<"", PENDING>>, <<PENDING, PROCESSING>>,
     <<PROCESSING, COMPLETED>>, <<PROCESSING, FAILED>>}

C2_StatusMachine ==
    [][\A j \in JobIds :
          job'[j].status # job[j].status =>
              <<job[j].status, job'[j].status>> \in StatusSteps]_vars

\* both variants have run: one job Completed, one Failed in transcription
C2_Witness ==
    \E j, k \in JobIds :
        /\ variant[j] = "DownloadTask" /\ job[j].status = COMPLETED
        /\ variant[k] = "DownloadAndTranscribeTask" /\ job[k].status = FAILED
        /\ job[k].error.code = "transcribe_failed"

(***************************************************************************)
(* C3  run never propagates an exception: whatever download or transcribe  *)
(* does (returns files, returns nothing, raises), run_task's await of      *)
(* task.run() returns normally and a failure is recorded in the job.       *)
(***************************************************************************)
C3_RunNeverRaises ==
    \A j \in JobIds :
        /\ pc[j] # "raised"
        /\ (pc[j] = "returned" /\ job[j].status # PENDING)
              => \/ job[j].status = COMPLETED /\ job[j].error = None
                 \/ job[j].status = FAILED /\ job[j].error # None

\* a download that raised and a transcription that raised both ended in a
\* normal return with the failure recorded
C3_Witness ==
    \E j, k \in JobIds :
        /\ pc[j] = "returned" /\ job[j].error # None
        /\ job[j].error.code = "internal_error"
        /\ pc[k] = "returned" /\ job[k].error # None
        /\ job[k].error.code = "transcribe_failed"

(***************************************************************************)
(* C4  Backpressure without rejection: under fair scheduling, with every   *)
(* collaborator call terminating, a job whose run_task found it registered *)
(* is eventually admitted and reaches Completed or Failed, however many    *)
(* jobs wait; run_task never returns for a registered job without running  *)
(* it, and a waiting job is still Pending.                                 *)
(***************************************************************************)
InRunTask(j) == pc[j] \in {"waiting", "woken", "download", "transcribe"}

C4_Backpressure ==
    /\ \A j \in JobIds :
          InRunTask(j) ~> (pc[j] = "returned" /\ job[j].status \in {COMPLETED, FAILED})
    /\ [][\A j \in JobIds :
             (pc[j] = "scheduled" /\ j \in tasks)
                 => pc'[j] \in {"scheduled", "waiting", "download"}]_vars
    /\ [](\A j \in JobIds : pc[j] \in {"waiting", "woken"} => job[j].status = PENDING)

\* a job that had to queue behind a full gate has been handed a slot
C4_Witness == \E j \in JobIds : pc[j] = "woken"

(***************************************************************************)
(* C5  Retention: after a cleanup sweep every job older than the retention *)
(* window is absent from get_job; no step removes a job whose age does not *)
(* exceed the window, so a submitted job younger than the window is always *)
(* returned by get_job.                                                    *)
(***************************************************************************)
Age(j) == now - job[j].created_at

\* a step in which run_task ran cleanup_old_jobs
SweepStep ==
    \E j \in JobIds : pc[j] \in {"download", "transcribe"} /\ pc'[j] = "returned"

C5_Retention ==
    /\ [][SweepStep =>
            \A t \in JobIds :
                (pc[t] # "idle" /\ Age(t) > JOB_RETENTION_SECONDS)
                    => (t \notin tasks' /\ get_job(t)' = None)]_vars
    /\ [][\A t \in tasks : t \notin tasks' => Age(t) > JOB_RETENTION_SECONDS]_vars
    /\ [](\A t \in JobIds :
             (pc[t] # "idle" /\ Age(t) <= JOB_RETENTION_SECONDS)
                 => get_job(t) = job[t])

\* a sweep has evicted an old job and kept a younger one
C5_Witness ==
    \E j, k \in JobIds :
        /\ pc[j] # "idle" /\ j \notin tasks
        /\ pc[k] = "returned" /\ k \in tasks /\ job[k].status # PENDING
        /\ job[k].created_at > job[j].created_at

(***************************************************************************)
(* C6  As claimed: when the submitted text is neither an 18-20 digit       *)
(* number nor holds a short-code link, the parse error reaches the caller  *)
(* of download as an error outcome, not as a normal return.                *)
(***************************************************************************)
\* the download call of job j has ended on a text that parses to no request
Unparseable(j) == dl[j].phase = "returned" /\ ~dl[j].parsed.ok

C6_ParseErrorSurfaces ==
    \A j \in JobIds : Unparseable(j) => dl[j].outcome.kind = "raise"

(***************************************************************************)
(* C6  As the code has it: the ValueError of _parse_input is caught by     *)
(* download, which returns the empty list without a request to the API or  *)
(* to a mirror; the job then ends Failed, with the code download_failed    *)
(* (DownloadTask) or no_video_found (DownloadAndTranscribeTask), and run   *)
(* does not raise.                                                         *)
(***************************************************************************)
C6_ParseErrorCaught ==
    \A j \in JobIds :
       /\ Unparseable(j) =>
             /\ dl[j].outcome = Returned(<<>>)
             /\ dl[j].caught = "ValueError()"
             /\ dl[j].api_calls = 0
             /\ dl[j].gets = 0
       /\ (past[j].done /\ ~_parse_input(job[j].video_id).ok) =>
             /\ pc[j] = "returned"
             /\ job[j].status = FAILED
             /\ job[j].error.code = IF variant[j] = "DownloadTask"
                                    THEN "download_failed"
                                    ELSE "no_video_found"

\* a job submitted with a text that does not parse has ended
C6_Witness ==
    \E j \in JobIds :
       /\ past[j].done
       /\ job[j].video_id = BadText
       /\ job[j].status = FAILED

(***************************************************************************)
(* C7  As claimed: when the cache holds an entry for the key, two calls of *)
(* download with the same text issue no metadata-API call and return equal *)
(* lists.                                                                  *)
(***************************************************************************)
\* jobs j and k were submitted with the same text and their download calls
\* are over, both begun on a cache that held the entry
BothWarm(j, k) ==
    /\ j # k
    /\ past[j].done /\ past[k].done
    /\ past[j].warm /\ past[k].warm
    /\ job[j].video_id = job[k].video_id

C7_CacheIdempotence ==
    \A j, k \in JobIds :
       BothWarm(j, k) =>
          /\ past[j].api_calls = 0
          /\ past[k].api_calls = 0
          /\ files[j] = files[k]

(***************************************************************************)
(* C7  As the code has it: a call begun on a cache that holds the entry,   *)
(* whose index query is answered, issues no metadata-API call and works on *)
(* the stored document; the list it returns is the destinations on disk    *)
(* after its batch.  Of two such calls one after the other with the same   *)
(* text, the second returns the list of the first when it has nothing to   *)
(* download.                                                               *)
(***************************************************************************)
C7_WarmCallReadsCache ==
    /\ \A j \in JobIds :
          LET c == dl[j] IN
          /\ (c.warm /\ c.phase \in {"api", "save"}) => c.db_error
          /\ (c.warm /\ ~c.db_error /\ c.phase \in {"batch", "returned"}) =>
                /\ c.api_calls = 0
                /\ c.hit
                /\ c.data = jsonfs[<<index[c.parsed.cache_key], c.parsed.cache_key>>]
          /\ (c.phase = "returned" /\ c.pairs # <<>>) =>
                /\ c.pairs = PairsOf(DetailOf(c.data), uid_to_name_map).pairs
                /\ c.outcome = Returned(ExistingPaths(Destinations(c.pairs)))
          /\ (past[j].done /\ past[j].warm /\ ~past[j].db_error) =>
                past[j].api_calls = 0
    /\ \A j, k \in JobIds :
          (/\ BothWarm(j, k)
           /\ k = j + 1
           /\ ~past[j].db_error /\ ~past[k].db_error
           /\ past[k].gets = 0) => files[j] = files[k]

\* two calls on a warm cache, the second with nothing left to download,
\* have returned the same files
C7_Witness ==
    \E j, k \in JobIds :
       /\ BothWarm(j, k)
       /\ k = j + 1
       /\ ~past[j].db_error /\ ~past[k].db_error
       /\ past[j].api_calls = 0 /\ past[k].api_calls = 0
       /\ past[j].gets > 0 /\ past[k].gets = 0
       /\ files[k] # <<>>

RECURSIVE SucceededOrExisted(_, _)
SucceededOrExisted(c, k) ==
    IF k > Len(c.pairs) THEN <<>>
    ELSE (IF c.ps[k].ok \/ c.ps[k].existed
          THEN <<c.pairs[k].save_path>>
          ELSE <<>>) \o SucceededOrExisted(c, k + 1)

C9_BatchResult ==
    \A j \in JobIds :
       (dl[j].phase = "returned" /\ dl[j].ps # <<>>) =>
          dl[j].outcome = Returned(SucceededOrExisted(dl[j], 1))

(***************************************************************************)
(* C10  As claimed: if every destination file of a job exists, running the *)
(* job performs no network download and the job ends Completed.            *)
(***************************************************************************)
C10_IdempotentRerun ==
    \A j \in JobIds :
       (past[j].done /\ past[j].all_existed) =>
          /\ past[j].gets = 0
          /\ variant[j] = "DownloadTask" => job[j].status = COMPLETED

(***************************************************************************)
(* C10  As the code has it: if every destination file of a job exists and  *)
(* no .heic among them lacks its .jpg, the call performs no network        *)
(* download and returns every destination; a DownloadTask then ends        *)
(* Completed with that list, which is the list of the run before it when   *)
(* that run, of the same text, completed and this one read the cache.      *)
(***************************************************************************)
C10_RerunSkipsAll ==
    \A j \in JobIds :
       /\ (dl[j].phase = "returned" /\ AllExisted(dl[j]) /\ NoneStale(dl[j])) =>
             /\ dl[j].gets = 0
             /\ dl[j].outcome = Returned(Destinations(dl[j].pairs))
       /\ (past[j].done /\ past[j].all_existed /\ past[j].none_stale) =>
             /\ past[j].gets = 0
             /\ files[j] # <<>>
             /\ variant[j] = "DownloadTask" =>
                   /\ job[j].status = COMPLETED
                   /\ job[j].result =
                         [tag |-> "files",
                          files |-> [i \in DOMAIN files[j] |-> PathStr(files[j][i])]]
             /\ \A i \in JobIds :
                   (/\ i + 1 = j
                    /\ job[i].video_id = job[j].video_id
                    /\ variant[i] = "DownloadTask"
                    /\ job[i].status = COMPLETED
                    /\ past[j].warm /\ ~past[j].db_error) => files[i] = files[j]

\* a gallery whose images an earlier run left beside their .jpg has been
\* run again as a DownloadTask
C10_Witness ==
    \E i, j \in JobIds :
       /\ i + 1 = j
       /\ job[i].video_id = job[j].video_id
       /\ variant[i] = "DownloadTask" /\ variant[j] = "DownloadTask"
       /\ job[i].status = COMPLETED /\ job[j].status = COMPLETED
       /\ past[j].done /\ past[j].all_existed /\ past[j].none_stale
       /\ past[j].gets = 0
       /\ Len(files[j]) = 2
       /\ \A n \in DOMAIN files[j] : Suffix(files[j][n]) = "heic"


(***************************************************************************)
(* C11  error handling: a single video without a play address              *)
(***************************************************************************)
\* the call's document reached the routing of step 3 (save_new_data did not
\* raise), takes the single-video route and its url_list is empty or missing
EmptyMirrors(c) ==
    /\ c.data # None
    /\ c.caught \notin {"OSError()", "SQLAlchemyError()"}
    /\ DetailOf(c.data) # None
    /\ Route(DetailOf(c.data)) = "video"
    /\ ~SingleVideoPairs(DetailOf(c.data), uid_to_name_map).ok

\* the step in which job j's task receives the result of such a call
EmptyMirrorsReturn(j) ==
    /\ dl[j].phase = "returned"
    /\ EmptyMirrors(dl[j])
    /\ ~past[j].done
    /\ past'[j].done

\* C11 as stated: for a single-video document whose mirror list is empty,
\* retrieve fails and the job running it, DownloadTask or
\* DownloadAndTranscribeTask, ends Failed with error code download_failed.
C11_EmptyMirrorsFail ==
    [][\A j \in JobIds :
          EmptyMirrorsReturn(j) =>
              /\ job'[j].status = FAILED
              /\ job'[j].error # None
              /\ job'[j].error.code = "download_failed"]_vars

\* C11 amended: _process_single_video raises ValueError before any request
\* is made, download catches it and returns the empty list; a DownloadTask
\* then ends Failed with code download_failed, a DownloadAndTranscribeTask
\* ends Failed with code no_video_found, both with the download_failed
\* message.
C11_EmptyMirrorsEmptyResult ==
    /\ [](\A j \in JobIds :
            (dl[j].phase = "returned" /\ EmptyMirrors(dl[j])) =>
                /\ dl[j].outcome = Returned(<<>>)
                /\ dl[j].caught = "ValueError()"
                /\ dl[j].gets = 0)
    /\ [][\A j \in JobIds :
            EmptyMirrorsReturn(j) =>
                /\ job'[j].status = FAILED
                /\ job'[j].error # None
                /\ job'[j].error.code =
                       IF variant[j] = "DownloadTask" THEN "download_failed"
                       ELSE "no_video_found"
                /\ job'[j].message = MESSAGE_TEMPLATES["download_failed"]
                /\ job'[j].error.message = job'[j].message
                /\ job'[j].result = None]_vars

\* a DownloadAndTranscribeTask has ended on a cached single-video document
\* without a play address
C11_Witness ==
    \E j \in JobIds :
        /\ past[j].done
        /\ variant[j] = "DownloadAndTranscribeTask"
        /\ job[j].status = FAILED
        /\ job[j].error # None
        /\ job[j].error.code = "no_video_found"
        /\ CacheHolds(job[j].video_id)
        /\ LET d == DetailOf(jsonfs[<<index[job[j].video_id], job[j].video_id>>])
           IN  /\ d # None
               /\ Route(d) = "video"
               /\ d.video # None
               /\ d.video.url_list = <<>>


(***************************************************************************)
(* C12  Every job in a terminal state carries a non-empty message, and     *)
(* every Failed job carries an error that is not None, whose code is one   *)
(* of ErrorCode and whose message is the job's message, on every failure   *)
(* path.                                                                   *)
(***************************************************************************)
Terminal(jb) == jb.status \in {COMPLETED, FAILED}

\* C12: terminal jobs have a message, Failed jobs a structured error that
\* repeats it
C12_TerminalCarriesMessage ==
    \A j \in JobIds :
        /\ Terminal(job[j]) => job[j].message # ""
        /\ job[j].status = FAILED =>
              /\ job[j].error # None
              /\ job[j].error.code \in ErrorCode
              /\ job[j].error.message = job[j].message

\* job j has Failed with the given code and the given repr of an exception
FailedWith(j, code, detail) ==
    /\ job[j].status = FAILED
    /\ job[j].error # None
    /\ job[j].error.code = code
    /\ job[j].error.detail = detail

\* the failure paths: no files (either class), no transcript, an exception
\* of the transcriber, an exception of the downloader
C12_NoFiles == \E j \in JobIds : FailedWith(j, "download_failed", "None")
C12_NoVideo == \E j \in JobIds : FailedWith(j, "no_video_found", "None")
C12_EmptyTranscript == \E j \in JobIds : FailedWith(j, "transcribe_empty", "None")
C12_TranscribeRaised ==
    \E j \in JobIds : FailedWith(j, "transcribe_failed", "RuntimeError()")
C12_Unexpected == \E j \in JobIds : FailedWith(j, "internal_error", "Exception()")

\* two jobs have Failed on different paths, one of them on an exception of
\* the transcriber
C12_Witness ==
    /\ C12_TranscribeRaised
    /\ C12_EmptyTranscript \/ C12_NoFiles \/ C12_NoVideo \/ C12_Unexpected


(***************************************************************************)
(* C13  get_data_path(key) returns a path only if the index holds a row    *)
(* for key and the JSON file exists at base_dir/<recorded folder>/key.json;*)
(* with the row but no file there, or without a row, it returns None.      *)
(***************************************************************************)
\* the call of get_data_path has returned
LookedUp == th[1].op = "get_data_path" /\ th[1].step = "done"

\* C13: a path is returned only for a row whose file exists, and it is the
\* path under the recorded folder
C13_LookupNeedsRowAndFile ==
    LookedUp =>
        LET key == th[1].key
            row == key \in DOMAIN index
        IN  /\ th[1].result # None =>
                  /\ row
                  /\ <<index[key], key>> \in DOMAIN jsonfs
                  /\ th[1].result = JsonPath(index[key], key)
            /\ (~row \/ <<index[key], key>> \notin DOMAIN jsonfs) =>
                  th[1].result = None

\* the answered query found a row, the file is not under the recorded
\* folder although a file for the key lies under another one, and the call
\* returned None
C13_Witness ==
    /\ LookedUp
    /\ ~th[1].db_error
    /\ th[1].key \in DOMAIN index
    /\ <<index[th[1].key], th[1].key>> \notin DOMAIN jsonfs
    /\ \E f \in StoreFolders : <<f, th[1].key>> \in DOMAIN jsonfs
    /\ th[1].result = None

\* a row and its file: the call returned the path
C13_Hit ==
    /\ LookedUp
    /\ th[1].result # None


(***************************************************************************)
(* C14  Parse classification: a text that is, after trimming, 18 to 20     *)
(* digits gives the request by ID with the number as cache key; any other  *)
(* text that contains v.douyin.com/<code> gives the request by link with   *)
(* the short code as cache key; a text that is neither fails.              *)
(***************************************************************************)
\* the text without its leading and trailing whitespace, by positions
Trimmed(t) ==
    LET inked == {i \in DOMAIN t : t[i] \notin Whitespace}
    IN  IF inked = {} THEN <<>>
        ELSE SubSeq(t, CHOOSE i \in inked : \A k \in inked : i <= k,
                       CHOOSE i \in inked : \A k \in inked : i >= k)

DecimalNumber(t) ==
    /\ Len(t) \in 18..20
    /\ {t[i] : i \in DOMAIN t} \subseteq DigitChars

\* the positions of t where a link with a short code starts
LinkStarts(t) ==
    {i \in DOMAIN t : t[i] = HOST /\ i < Len(t) /\ t[i + 1] \in AlnumChars}

\* the short code of the link at position i: the characters up to the first
\* one that is no letter and no digit
CodeAt(t, i) ==
    LET ends == {e \in (i + 1)..Len(t) :
                    /\ \A k \in (i + 1)..e : t[k] \in AlnumChars
                    /\ e = Len(t) \/ t[e + 1] \notin AlnumChars}
    IN  SubSeq(t, i + 1, CHOOSE e \in ends : TRUE)

\* job j's call of download is past _parse_input
Parsed(j) == dl[j].phase # "idle"

\* C14: the three cases of the classification
C14_ParseClassification ==
    \A j \in JobIds :
        Parsed(j) =>
            LET text == job[j].video_id
                r == dl[j].parsed
            IN  /\ DecimalNumber(Trimmed(text)) =>
                      /\ r.ok
                      /\ r.api_url = "id_api_url"
                      /\ r.params = [name |-> "aweme_id", value |-> Trimmed(text)]
                      /\ r.cache_key = Trimmed(text)
                /\ (~DecimalNumber(Trimmed(text)) /\ LinkStarts(text) # {}) =>
                      /\ r.ok
                      /\ r.api_url = "url_api_url"
                      /\ r.params = [name |-> "share_url", value |-> Trimmed(text)]
                      /\ r.cache_key =
                            CodeAt(text, CHOOSE i \in LinkStarts(text) :
                                            \A k \in LinkStarts(text) : i <= k)
                /\ (~DecimalNumber(Trimmed(text)) /\ LinkStarts(text) = {}) =>
                      ~r.ok

\* a padded number of 20 digits was taken as an ID, its key the number
C14_Witness ==
    \E j \in JobIds :
        /\ Parsed(j)
        /\ dl[j].parsed.ok
        /\ dl[j].parsed.api_url = "id_api_url"
        /\ Len(dl[j].parsed.cache_key) = 20
        /\ Len(job[j].video_id) > 20

\* a text with a number of 19 digits before the link was taken as a link
C14_LinkWitness ==
    \E j \in JobIds :
        /\ Parsed(j)
        /\ dl[j].parsed.ok
        /\ dl[j].parsed.api_url = "url_api_url"
        /\ dl[j].parsed.cache_key = <<"1", "b">>
        /\ Len(job[j].video_id) > 20

\* 17 and 21 digits, and a link without a code, were rejected
C14_RejectWitness ==
    \E j \in JobIds :
        /\ Parsed(j)
        /\ ~dl[j].parsed.ok
        /\ Trimmed(job[j].video_id) \in {Digits(17), Digits(21), <<HOST, "/">>}


(***************************************************************************)
(* C15  run_task for an identifier that is not in the registry is a no-op: *)
(* it acquires no slot of the gate, changes no job and no entry of the     *)
(* registry, and returns without an exception.                             *)
(***************************************************************************)
\* the step of run_task for a job that the sweep has evicted before its
\* background task started
RunsAbsent(j) ==
    /\ pc[j] = "scheduled"
    /\ j \notin tasks
    /\ pc'[j] # "scheduled"

\* C15: that step returns and leaves the gate, the jobs and the registry as
\* they were
C15_AbsentRunIsNoOp ==
    [][\A j \in JobIds :
          RunsAbsent(j) =>
              /\ pc'[j] = "returned"
              /\ semValue' = semValue
              /\ semWaiters' = semWaiters
              /\ job' = job
              /\ tasks' = tasks
              /\ files' = files
              /\ \A k \in JobIds \ {j} : pc'[k] = pc[k]]_vars

\* run_task has returned for an evicted job, which is Pending for ever
C15_Witness ==
    \E j \in JobIds :
        /\ pc[j] = "returned"
        /\ j \notin tasks
        /\ job[j].status = PENDING


(***************************************************************************)
(* C16  Gate slot conservation: in every reachable state the free slots    *)
(* plus the jobs that hold a slot are GateSize, and when run_task returns, *)
(* whether the job ended Completed or Failed, its slot is free again or    *)
(* has passed to the oldest waiter.                                        *)
(***************************************************************************)
\* the jobs inside the async with of run_task: in task.run(), or woken with
\* the slot that release handed to them
Holders == {j \in JobIds : pc[j] \in {"woken", "download", "transcribe"}}

\* run_task of job j ends in this step
Leaves(j) ==
    /\ pc[j] \in {"download", "transcribe"}
    /\ pc'[j] \in {"returned", "raised"}

C16_HandOver ==
    \E j, k \in JobIds :
        /\ pc[j] = "returned"
        /\ job[j].status = FAILED
        /\ pc[k] = "woken"
        /\ semValue = 0


(***************************************************************************)
(* C17  The folder save_new_data chooses                                   *)
(***************************************************************************)
\* save_new_data has returned a path
Saved == th[1].op = "save_new_data" /\ th[1].step = "done" /\ th[1].result.tag = "path"

\* the author identifier of the document of the call, "" when it has none
SavedUid == DetailOf(th[1].doc).author.uid

C17_SentinelWitness ==
    /\ Saved
    /\ SavedUid = ""
    /\ th[1].result = JsonPath("unknown_author", IdText)

C17_RawWitness ==
    /\ Saved
    /\ SavedUid = "10086"
    /\ uid_to_name_map = EmptyFn
    /\ th[1].result = JsonPath("10086", IdText)


(***************************************************************************)
(* C18  Mid-write failure leaves no artifact: whenever an attempt on one   *)
(* mirror fails, no file exists at the pair's destination when the error   *)
(* propagates, so that a later call never skips a truncated file as an     *)
(* existing destination.                                                   *)
(***************************************************************************)
\* pair k of job j is in its batch
InBatch(j, k) == dl[j].phase = "batch" /\ k \in DOMAIN dl[j].ps

\* the step in which _download_file raises for pair k of job j: the retry
\* loop goes on to the next mirror, or ends the pair without success
AttemptFails(j, k) ==
    /\ InBatch(j, k)
    /\ dl[j].ps[k].st \in {"get", "read"}
    /\ dl'[j].phase = "batch"
    /\ \/ dl'[j].ps[k].st = "get" /\ dl'[j].ps[k].i = dl[j].ps[k].i + 1
       \/ dl'[j].ps[k].st = "done" /\ ~dl'[j].ps[k].ok

\* the step in which _download_with_retry finds the destination and returns
SkipsExisting(j, k) ==
    /\ InBatch(j, k)
    /\ dl[j].ps[k].st = "start"
    /\ dl'[j].phase = "batch"
    /\ dl'[j].ps[k].skipped

\* C18: after a failed attempt the destination does not exist; a file that
\* was opened and not written is one a running attempt holds open; a
\* destination that is skipped holds the bytes of a completed download
C18_NoPartialFile ==
    /\ [][\A j \in JobIds, k \in 1..MaxPairs :
            AttemptFails(j, k) => dl[j].pairs[k].save_path \notin DOMAIN media']_vars
    /\ [](\A p \in DOMAIN media :
            media[p] = "empty" =>
                \E j \in JobIds, k \in 1..MaxPairs :
                    /\ InBatch(j, k)
                    /\ dl[j].pairs[k].save_path = p
                    /\ dl[j].ps[k].st = "read")
    /\ [][\A j \in JobIds, k \in 1..MaxPairs :
            SkipsExisting(j, k) => media[dl[j].pairs[k].save_path] = "data"]_vars

\* the first call of the work made requests and returned nothing; in the
\* call after it a pair has failed on the last of its several mirrors and
\* its destination does not exist
C18_Witness ==
    \E j \in JobIds, k \in 1..MaxPairs :
        /\ j > 1
        /\ past[j - 1].done
        /\ past[j - 1].gets > 0
        /\ files[j - 1] = <<>>
        /\ InBatch(j, k)
        /\ ~dl[j].ps[k].existed
        /\ dl[j].ps[k].st = "done"
        /\ ~dl[j].ps[k].ok
        /\ dl[j].ps[k].i = Len(dl[j].pairs[k].url_list)
        /\ dl[j].ps[k].i > 1
        /\ dl[j].pairs[k].save_path \notin DOMAIN media


(***************************************************************************)
(* C19  Filesystem writes are never contended                              *)
(***************************************************************************)
\* pair k of job j is executing: past the existence check, not yet done
Downloading(j, k) ==
    /\ InBatch(j, k)
    /\ dl[j].ps[k].st \in {"get", "read"}

\* C19 as stated: at no time do two executing download pairs, of one job or
\* of different jobs admitted together, target the same destination path.
C19_NoContention ==
    \A j1, j2 \in JobIds, k1, k2 \in 1..MaxPairs :
        (/\ <<j1, k1>> # <<j2, k2>>
         /\ Downloading(j1, k1)
         /\ Downloading(j2, k2)) =>
            dl[j1].pairs[k1].save_path # dl[j2].pairs[k2].save_path

\* what holds: the pairs of one job have distinct destinations
C19_DistinctWithinJob ==
    \A j \in JobIds, k1, k2 \in 1..MaxPairs :
        (InBatch(j, k1) /\ InBatch(j, k2) /\ k1 # k2) =>
            dl[j].pairs[k1].save_path # dl[j].pairs[k2].save_path

\* a job has Completed on a file that another job's attempt holds open and
\* has not written yet
C19_CompletedOnPartial ==
    \E j, j2 \in JobIds, k \in 1..MaxPairs :
        /\ j # j2
        /\ job[j].status = COMPLETED
        /\ files[j] # <<>>
        /\ files[j][1] \in DOMAIN media
        /\ media[files[j][1]] = "empty"
        /\ Downloading(j2, k)
        /\ dl[j2].pairs[k].save_path = files[j][1]

\* a job has Completed and the file it reports has been unlinked by the
\* failed attempt of another job
C19_CompletedFileUnlinked ==
    \E j \in JobIds :
        /\ job[j].status = COMPLETED
        /\ files[j] # <<>>
        /\ files[j][1] \notin DOMAIN media


(***************************************************************************)
(* C20  Media classification prefers the explicit type tag                 *)
(***************************************************************************)
\* the strategy the tag names, "" for an absent or unknown tag
TagStrategy(d) ==
    CASE d.media_type = 4 -> "video"
      [] d.media_type \in {2, 68} -> "gallery"
      [] d.media_type = 42 -> "mixed"
      [] OTHER -> ""

\* the strategy the fields name: images only, images and video, video only
FieldStrategy(d) ==
    CASE d.images # <<>> /\ d.video = None -> "gallery"
      [] d.images # <<>> /\ d.video # None -> "mixed"
      [] d.images = <<>> /\ d.video # None -> "video"
      [] OTHER -> "unknown"

\* what download does with d under strategy s
Under(s, d, map) ==
    CASE s = "gallery" -> ProcessGalleryPairs(d, FALSE, map)
      [] s = "mixed" -> ProcessGalleryPairs(d, TRUE, map)
      [] s = "video" -> SingleVideoPairs(d, map)
      [] OTHER -> [ok |-> TRUE, pairs |-> <<>>]

\* the call of job j has routed its document
Routed(j) ==
    /\ dl[j].phase \in {"batch", "returned"}
    /\ dl[j].data # None
    /\ DetailOf(dl[j].data) # None
    /\ dl[j].caught \notin {"OSError()", "SQLAlchemyError()"}

\* the call of job j went on as strategy s prescribes for its document
Follows(j, s) ==
    LET exp == Under(s, DetailOf(dl[j].data), uid_to_name_map)
    IN  IF ~exp.ok
        THEN dl[j].phase = "returned" /\ dl[j].caught = "ValueError()"
        ELSE /\ dl[j].caught = ""
             /\ dl[j].pairs = exp.pairs
             /\ exp.pairs = <<>> =>
                   dl[j].phase = "returned" /\ dl[j].outcome = Returned(<<>>)

\* C20 as stated: with a recognized tag the strategy is the one of the tag,
\* whichever of images and video are present; the fields decide only when
\* the tag is absent or unknown, and a document with neither gives the
\* empty result.
C20_TagFirst ==
    \A j \in JobIds :
        Routed(j) =>
            LET d == DetailOf(dl[j].data)
            IN  Follows(j, IF TagStrategy(d) # "" THEN TagStrategy(d)
                           ELSE FieldStrategy(d))

\* what holds: tags 2 and 68 always give the gallery strategy, and without
\* a recognized tag the fields decide
C20_GalleryTagAndFallback ==
    \A j \in JobIds :
        Routed(j) =>
            LET d == DetailOf(dl[j].data)
            IN  /\ TagStrategy(d) = "gallery" => Follows(j, "gallery")
                /\ TagStrategy(d) = "" => Follows(j, FieldStrategy(d))

\* a call on a document tagged 42 with images and no video field has
\* planned the image of an item that holds a clip
C20_MixedTagAsGallery ==
    \E j \in JobIds :
        /\ Routed(j)
        /\ DetailOf(dl[j].data).media_type = 42
        /\ DetailOf(dl[j].data).video = None
        /\ dl[j].pairs # <<>>
        /\ Suffix(dl[j].pairs[1].save_path) = "heic"


(***************************************************************************)
(* C21  Mirror fallback: the mirrors of a pair are requested in list       *)
(* order, one at a time; the first success ends the attempts, and the pair *)
(* fails only after every mirror of the list was attempted and failed.     *)
(***************************************************************************)
\* the requests the pairs of a call have made, pair k having requested the
\* mirrors 1..i
RECURSIVE Requested(_, _)
Requested(ps, k) == IF k = 0 THEN 0 ELSE ps[k].i + Requested(ps, k - 1)

\* C21: position i of a pair is the mirror it is on; it moves by one, from
\* the start or after a failed attempt; a pair that is done moves no more;
\* a pair that gave up is on the last mirror
C21_MirrorFallback ==
    /\ [](\A j \in JobIds, k \in 1..MaxPairs :
            InBatch(j, k) =>
                LET p == dl[j].ps[k]
                    n == Len(dl[j].pairs[k].url_list)
                IN  /\ p.i \in 0..n
                    /\ p.st = "start" => p.i = 0
                    /\ p.st \in {"get", "read"} => p.i >= 1 /\ ~p.ok
                    /\ (p.st = "done" /\ p.ok /\ ~p.skipped) => p.i >= 1
                    /\ (p.st = "done" /\ p.skipped) => p.i = 0
                    /\ (p.st = "done" /\ ~p.ok) => p.i = n
                    /\ dl[j].gets = Requested(dl[j].ps, Len(dl[j].ps)))
    /\ [][\A j \in JobIds, k \in 1..MaxPairs :
            (InBatch(j, k) /\ dl'[j].phase = "batch") =>
                LET p == dl[j].ps[k]
                    q == dl'[j].ps[k]
                IN  /\ q.i \in {p.i, p.i + 1}
                    /\ q.i = p.i + 1 =>
                          /\ q.st = "get"
                          /\ p.st = "start" \/ AttemptFails(j, k)
                    /\ p.st = "done" => (q.st = "done" /\ q.i = p.i /\ q.ok = p.ok)]_vars

\* the first mirror of two failed and the second succeeded
C21_Witness ==
    \E j \in JobIds, k \in 1..MaxPairs :
        /\ InBatch(j, k)
        /\ dl[j].ps[k].st = "done"
        /\ dl[j].ps[k].ok
        /\ dl[j].ps[k].i = 2
        /\ Len(dl[j].pairs[k].url_list) = 2

\* the first mirror of two succeeded and the second was never requested
C21_FirstWins ==
    \E j \in JobIds, k \in 1..MaxPairs :
        /\ dl[j].phase = "returned"
        /\ k \in DOMAIN dl[j].ps
        /\ dl[j].ps[k].ok
        /\ dl[j].ps[k].i = 1
        /\ dl[j].gets = 1
        /\ Len(dl[j].pairs[k].url_list) = 2

\* both mirrors failed and the pair gave up
C21_Exhausted ==
    \E j \in JobIds, k \in 1..MaxPairs :
        /\ InBatch(j, k)
        /\ dl[j].ps[k].st = "done"
        /\ ~dl[j].ps[k].ok
        /\ dl[j].ps[k].i = 2


(***************************************************************************)
(* C22  If the destination of a pair exists when its download starts, no   *)
(* request is made for the pair and the file is left unchanged, with one   *)
(* exception: a .heic destination whose .jpg is missing is downloaded      *)
(* again.                                                                  *)
(***************************************************************************)
\* the step in which _download_with_retry of pair k of job j starts
Starts(j, k) ==
    /\ InBatch(j, k)
    /\ dl[j].ps[k].st = "start"
    /\ dl'[j].phase = "batch"
    /\ dl'[j].ps[k].st # "start"

\* the one exception: the destination is a .heic and its .jpg is missing
StaleHeic(p) == Suffix(p) = "heic" /\ WithSuffix(p, "jpg") \notin DOMAIN media

\* C22: an existing destination is skipped without a request and stays as
\* it is until the call returns; a stale .heic is requested again
C22_ExistingSkipped ==
    /\ [][\A j \in JobIds, k \in 1..MaxPairs :
            Starts(j, k) =>
                LET p == dl[j].pairs[k].save_path
                    q == dl'[j].ps[k]
                IN  /\ (p \in DOMAIN media /\ ~StaleHeic(p)) =>
                          /\ q.skipped /\ q.st = "done" /\ q.i = 0
                          /\ dl'[j].gets = dl[j].gets
                          /\ media' = media
                    /\ (p \in DOMAIN media /\ StaleHeic(p)) =>
                          /\ ~q.skipped /\ q.st = "get" /\ q.i = 1
                          /\ dl'[j].gets = dl[j].gets + 1
                    /\ p \notin DOMAIN media => ~q.skipped]_vars
    /\ [][\A j \in JobIds, k \in 1..MaxPairs :
            (InBatch(j, k) /\ dl[j].ps[k].skipped) =>
                LET p == dl[j].pairs[k].save_path
                IN  /\ p \in DOMAIN media
                    /\ p \in DOMAIN media'
                    /\ media'[p] = media[p]]_vars

\* a .heic that the call found without its .jpg is requested again
C22_Witness ==
    \E j \in JobIds, k \in 1..MaxPairs :
        /\ InBatch(j, k)
        /\ dl[j].ps[k].existed
        /\ ~dl[j].ps[k].had_jpg
        /\ Suffix(dl[j].pairs[k].save_path) = "heic"
        /\ dl[j].ps[k].st = "get"
        /\ dl[j].gets >= 1

\* an existing .mp4 was skipped and the call returned it without a request
C22_SkipWitness ==
    \E j \in JobIds :
        /\ dl[j].phase = "returned"
        /\ dl[j].ps # <<>>
        /\ dl[j].ps[1].skipped
        /\ Suffix(dl[j].pairs[1].save_path) = "mp4"
        /\ dl[j].gets = 0
        /\ dl[j].outcome = Returned(<<dl[j].pairs[1].save_path>>)

\* a .heic with its .jpg beside it (the conversion could not unlink it) was
\* skipped
C22_HeicWithJpgSkipped ==
    \E j \in JobIds, k \in 1..MaxPairs :
        /\ InBatch(j, k)
        /\ dl[j].ps[k].skipped
        /\ Suffix(dl[j].pairs[k].save_path) = "heic"


(***************************************************************************)
(* C23  Fetch retry semantics                                              *)
(***************************************************************************)
\* the call has returned after the metadata API failed: a network or HTTP
\* error, or a body without the success code
FetchFailed(c) ==
    /\ c.phase = "returned"
    /\ c.api_calls = 1
    /\ c.data = None
    /\ c.caught \in {"ClientError()", "ValueError()"}

\* the call is past its cache lookup
PastLookup(c) == c.parsed.ok /\ c.phase \notin {"idle", "lookup"}

\* C23 as stated: a call requests the metadata at most once; after a call
\* whose fetch failed no cache entry exists for the key, so that the next
\* call for the key requests the metadata again; once a cache entry for the
\* key has been written, later calls do not request the metadata.
C23_FetchRetry ==
    \A j \in JobIds :
        /\ dl[j].api_calls <= 1
        /\ FetchFailed(dl[j]) => ~CacheHolds(dl[j].parsed.cache_key)
        /\ (PastLookup(dl[j]) /\ ~dl[j].warm) => dl[j].api_calls = 1
        /\ (PastLookup(dl[j]) /\ dl[j].warm) => dl[j].api_calls = 0

\* C23 amended: as stated when the index query of the call's lookup is
\* answered.  A call that starts on a cached key requests the metadata
\* exactly when that query failed, and if its fetch then fails the entry is
\* still there.
C23_FetchRetryUnlessStoreFails ==
    \A j \in JobIds :
        /\ dl[j].api_calls <= 1
        /\ past[j].api_calls <= 1
        /\ (FetchFailed(dl[j]) /\ ~dl[j].warm) => ~CacheHolds(dl[j].parsed.cache_key)
        /\ (FetchFailed(dl[j]) /\ dl[j].warm) =>
              dl[j].db_error /\ CacheHolds(dl[j].parsed.cache_key)
        /\ (PastLookup(dl[j]) /\ ~dl[j].warm) => dl[j].api_calls = 1
        /\ (PastLookup(dl[j]) /\ dl[j].warm) =>
              dl[j].api_calls = IF dl[j].db_error THEN 1 ELSE 0

\* a call that found no entry requested the metadata and left none; the
\* call after it, for the same key, requested the metadata again and failed
C23_Witness ==
    \E j \in JobIds :
        /\ j > 1
        /\ past[j - 1].done
        /\ ~past[j - 1].warm
        /\ past[j - 1].api_calls = 1
        /\ job[j - 1].video_id = job[j].video_id
        /\ FetchFailed(dl[j])
        /\ ~dl[j].warm
        /\ ~CacheHolds(dl[j].parsed.cache_key)

\* a call wrote the entry; the call after it, for the same key, read it and
\* requested no metadata
C23_CachedWitness ==
    \E j \in JobIds :
        /\ j > 1
        /\ past[j - 1].done
        /\ ~past[j - 1].warm
        /\ past[j - 1].api_calls = 1
        /\ job[j - 1].video_id = job[j].video_id
        /\ PastLookup(dl[j])
        /\ dl[j].warm
        /\ dl[j].hit
        /\ dl[j].api_calls = 0


(***************************************************************************)
(* C24  Composite short-circuits: a DownloadAndTranscribeTask whose        *)
(* download returns no file goes Failed without calling the transcriber;   *)
(* if the transcriber raises, the job goes Failed with code                *)
(* transcribe_failed and the transcriber is not called again: it is called *)
(* at most once per job.                                                   *)
(***************************************************************************)
Composite(j) == variant[j] = "DownloadAndTranscribeTask"

\* run of job j is over (and was entered: the job is not Pending)
RunOver(j) == pc[j] \in {"returned", "raised"} /\ job[j].status # PENDING

C24_CompositeShortCircuits ==
    /\ [](\A j \in JobIds :
            /\ Len(transcribed[j]) <= 1
            /\ ~Composite(j) => transcribed[j] = <<>>
            /\ pc[j] = "transcribe" => Len(transcribed[j]) = 1
            /\ (Composite(j) /\ RunOver(j) /\ files[j] = <<>>) =>
                  /\ job[j].status = FAILED
                  /\ transcribed[j] = <<>>
            /\ (Composite(j) /\ RunOver(j) /\ job[j].error # None
                  /\ job[j].error.detail = "RuntimeError()") =>
                  /\ job[j].status = FAILED
                  /\ job[j].error.code = "transcribe_failed"
                  /\ Len(transcribed[j]) = 1
            /\ (RunOver(j) /\ Len(transcribed[j]) = 1) =>
                  \/ job[j].status = COMPLETED /\ job[j].error = None
                  \/ /\ job[j].status = FAILED
                     /\ job[j].error.code \in {"transcribe_failed", "transcribe_empty"})
    /\ [][\A j \in JobIds :
            (pc[j] = "transcribe" /\ pc'[j] # "transcribe") =>
                /\ pc'[j] = "returned"
                /\ transcribed'[j] = transcribed[j]
                /\ job'[j].status \in {COMPLETED, FAILED}]_vars

\* the transcriber raised on the one file it was given; the job is Failed
\* with transcribe_failed
C24_Witness ==
    \E j \in JobIds :
        /\ Composite(j)
        /\ RunOver(j)
        /\ job[j].status = FAILED
        /\ job[j].error.code = "transcribe_failed"
        /\ job[j].error.detail = "RuntimeError()"
        /\ Len(transcribed[j]) = 1

\* the download returned no file; the job is Failed and the transcriber was
\* not called
C24_NoFilesWitness ==
    \E j \in JobIds :
        /\ Composite(j)
        /\ RunOver(j)
        /\ files[j] = <<>>
        /\ job[j].status = FAILED
        /\ job[j].error.code = "no_video_found"
        /\ transcribed[j] = <<>>


(***************************************************************************)
(* C25  Concurrent saves keep the cache consistent: after any interleaving *)
(* of concurrent saves of one key, possibly under different folders, the   *)
(* index holds one row for the key, the row names the folder of one of the *)
(* writers, and the JSON file exists under that folder, so that a lookup   *)
(* that follows hits.                                                      *)
(***************************************************************************)
\* thread j is inside save_new_data
Saving(j) == th[j].op = "save_new_data" /\ th[j].step # "done"

\* save_new_data on thread j has returned its path
SaveReturned(j) ==
    th[j].op = "save_new_data" /\ th[j].step = "done" /\ th[j].result.tag = "path"

\* the step in which thread j commits its upsert
Upserts(j) ==
    /\ th[j].op = "save_new_data"
    /\ th[j].step = "dumped"
    /\ SaveReturned(j)'

\* the step in which get_data_path on thread j returns, its query answered
LookupAnswers(j) ==
    /\ th[j].op = "get_data_path"
    /\ th[j].step = "call"
    /\ th'[j].step = "done"
    /\ ~th'[j].db_error

C25_Overlap ==
    /\ th[1].op = "save_new_data" /\ th[1].step = "dumped"
    /\ th[2].op = "save_new_data" /\ th[2].step = "dumped"
    /\ th[1].folder # th[2].folder
    /\ index = EmptyFn

\* a lookup hits while a save of the same folder has truncated the file
C25_HitOnTruncated ==
    \E j, k \in JobIds :
        /\ th[j].op = "get_data_path" /\ th[j].step = "done"
        /\ th[j].result # None
        /\ th[k].op = "save_new_data" /\ th[k].step = "opened"
        /\ jsonfs[<<index[th[j].key], th[j].key>>] = Truncated


(***************************************************************************)
(* C26  A save whose upsert fails                                          *)
(***************************************************************************)
\* the step in which the upsert of the save on thread 1 fails
UpsertFails ==
    /\ th[1].op = "save_new_data"
    /\ th[1].step = "dumped"
    /\ th'[1].step = "done"
    /\ th'[1].result = ThreadRaised("SQLAlchemyError()")

\* what get_data_path(key) returns when its query is answered
WouldFind(key) ==
    IF key \in DOMAIN index /\ <<index[key], key>> \in DOMAIN jsonfs
    THEN JsonPath(index[key], key)
    ELSE None

C26_OlderRowElsewhere ==
    /\ th[1].op = "save_new_data"
    /\ th[1].step = "done"
    /\ th[1].result = ThreadRaised("SQLAlchemyError()")
    /\ th[1].key \in DOMAIN index
    /\ index[th[1].key] # th[1].folder
    /\ WouldFind(th[1].key) = JsonPath(index[th[1].key], th[1].key)


(***************************************************************************)
(* C27  A store failure during lookup degrades to a miss                   *)
(***************************************************************************)
\* the step in which the query of the lookup of call j fails
LookupFails(j) ==
    /\ th[j].op = "get_data_path"
    /\ th[j].step = "call"
    /\ th'[j].step = "done"
    /\ th'[j].db_error

\* the step in which the retrieve of job j goes on after its lookup
AfterLookup(j) ==
    /\ dl[j].phase = "lookup"
    /\ dl'[j].phase # "lookup"

\* C27: a lookup whose query fails returns absent, it does not raise, and
\* the retrieve that called it goes on to request the metadata from the API:
\* it does not end there, with or without an error.
C27_StoreFailureIsMiss ==
    /\ [][\A j \in JobIds :
            LookupFails(j) => th'[j].result = None]_vars
    /\ [][\A j \in JobIds :
            (AfterLookup(j) /\ th[j].db_error) =>
                /\ dl'[j].phase = "api"
                /\ dl'[j].api_calls = dl[j].api_calls + 1
                /\ dl'[j].caught = ""
                /\ ~dl'[j].hit]_vars
    /\ [](\A j \in JobIds :
            (dl[j].db_error /\ dl[j].caught = "SQLAlchemyError()") =>
                dl[j].data # None)

\* the entry was there, the query of the lookup failed, and the call stands
\* at its request to the metadata API
C27_Witness ==
    \E j \in JobIds :
        /\ dl[j].phase = "api"
        /\ dl[j].warm
        /\ dl[j].db_error
        /\ th[j].op = "get_data_path"
        /\ th[j].result = None

\* a call whose lookup failed has returned files
C27_CompletedAfterFailure ==
    \E j \in JobIds :
        /\ past[j].done
        /\ past[j].db_error
        /\ past[j].api_calls = 1
        /\ files[j] # <<>>


(***************************************************************************)
(* C28  lookup is read-only                                                *)
(***************************************************************************)
\* the step in which get_data_path on thread j returns
LookupReturns(j) ==
    /\ th[j].op = "get_data_path"
    /\ th[j].step = "call"
    /\ th'[j].step = "done"

\* the row of key names a folder with no file for the key
StaleRow(key) ==
    /\ key \in DOMAIN index
    /\ <<index[key], key>> \notin DOMAIN jsonfs

\* C28: the step of a lookup changes no row of the index and no file, of
\* the cache or of the media; a row is never deleted and changes only in
\* the upsert of a save for its key, so a stale row is there after the
\* lookup that found its file missing, and it stays stale until a save for
\* the same key acts.
C28_LookupReadOnly ==
    /\ [][\A j \in DOMAIN th :
            LookupReturns(j) =>
                /\ index' = index
                /\ jsonfs' = jsonfs
                /\ media' = media
                /\ StaleRow(th[j].key) => StaleRow(th[j].key)']_vars
    /\ [][\A key \in DOMAIN index :
            /\ key \in DOMAIN index'
            /\ index'[key] # index[key] =>
                  \E j \in DOMAIN th : Upserts(j) /\ th[j].key = key
            /\ (StaleRow(key) /\ ~StaleRow(key)') =>
                  \E j \in DOMAIN th :
                     /\ th[j].op = "save_new_data"
                     /\ th[j].key = key
                     /\ th'[j].step # th[j].step]_vars

\* the lookup found the row, found no file under its folder or any other,
\* returned absent, and the row is still there
C28_Witness ==
    /\ LookedUp
    /\ ~th[1].db_error
    /\ th[1].result = None
    /\ StaleRow(th[1].key)
    /\ \A f \in StoreFolders : <<f, th[1].key>> \notin DOMAIN jsonfs

\* a save for the key has returned: the row names the folder of the save,
\* the only one with a file for the key
C28_Overwritten ==
    /\ SaveReturned(1)
    /\ index[th[1].key] = th[1].folder
    /\ \A f \in StoreFolders :
          <<f, th[1].key>> \in DOMAIN jsonfs <=> f = th[1].folder
    /\ \E f \in StoreFolders : f # th[1].folder


(***************************************************************************)
(* C29  A job's record is immutable once terminal                          *)
(***************************************************************************)
\* the positions from which the next step of run_task of a job is its own
Running == {"scheduled", "woken", "download", "transcribe"}

\* the step is one of the run of job j: its coroutine moves on
OwnRunStep(j) == pc[j] \in Running /\ pc'[j] # pc[j]

\* the step in which the submission handler creates the record of job j
Creates(j) == pc[j] = "idle" /\ pc'[j] = "scheduled"

\* C29: once the status of a job is Completed or Failed its record (status,
\* message_code, message, result, error and the rest) never changes, a
\* terminal job's run is over, and a record changes only in the step that
\* creates it and in steps of the run of its own task.
C29_TerminalImmutable ==
    /\ [](\A j \in JobIds :
            Terminal(job[j]) => pc[j] \in {"returned", "raised"})
    /\ [][\A j \in JobIds :
            Terminal(job[j]) => job'[j] = job[j]]_vars
    /\ [][\A j \in JobIds :
            job'[j] # job[j] => Creates(j) \/ OwnRunStep(j)]_vars

\* one job is terminal, evicted from the registry, while another job, not
\* yet terminal, is in its run
C29_Witness ==
    \E j, k \in JobIds :
        /\ Terminal(job[j])
        /\ j \notin tasks
        /\ pc[k] \in {"download", "transcribe"}
        /\ job[k].status = PROCESSING

\* a Completed and a Failed job side by side
C29_BothTerminal ==
    \E j, k \in JobIds :
        /\ job[j].status = COMPLETED
        /\ job[k].status = FAILED


(***************************************************************************)
(* C30  Phase ordering within one job                                      *)
(***************************************************************************)
\* a download of the batch of job j has started
PairStarted(j) ==
    \E k \in DOMAIN dl[j].ps : dl[j].ps[k].st # "start"

\* a download of the batch of job j is not over yet
PairInFlight(j) ==
    \E k \in DOMAIN dl[j].ps : dl[j].ps[k].st # "done"

\* the metadata of the call of job j has been resolved and classified: the
\* call holds the document and the pairs its route gave
Classified(j) ==
    /\ dl[j].data # None
    /\ DetailOf(dl[j].data) # None
    /\ dl[j].pairs # <<>>
    /\ dl[j].pairs = PairsOf(DetailOf(dl[j].data), uid_to_name_map).pairs

\* the step in which the transcription of job j starts
TranscriptionStarts(j) == pc[j] # "transcribe" /\ pc'[j] = "transcribe"

\* C30: a download of a job exists only once its metadata has been resolved
\* and classified; the transcription starts, and the job leaves Processing,
\* only in a step before which every download of its batch is over, and no
\* download is in flight while the job transcribes or is no longer
\* Processing.
C30_PhaseOrdering ==
    /\ [](\A j \in JobIds :
            /\ (dl[j].ps # <<>> \/ dl[j].gets > 0) =>
                  /\ Classified(j)
                  /\ dl[j].phase \in {"batch", "returned"}
            /\ PairInFlight(j) =>
                  /\ pc[j] = "download"
                  /\ job[j].status = PROCESSING
                  /\ dl[j].phase = "batch"
            /\ pc[j] = "transcribe" => dl[j].ps = <<>>)
    /\ [][\A j \in JobIds :
            /\ (~PairStarted(j) /\ PairStarted(j)') =>
                  Classified(j) /\ dl[j].phase = "batch"
            /\ TranscriptionStarts(j) =>
                  dl[j].phase = "returned" /\ ~PairInFlight(j)
            /\ (job[j].status = PROCESSING /\ job'[j].status # PROCESSING) =>
                  ~PairInFlight(j)]_vars

\* a composite job transcribes after a batch of two downloads
C30_Witness ==
    \E j \in JobIds :
        /\ pc[j] = "transcribe"
        /\ past[j].done
        /\ past[j].gets >= 2
        /\ files[j] # <<>>

\* one download of the batch is over and failed, the other still in flight:
\* the job is Processing
C30_WaitsForAll ==
    \E j \in JobIds :
        /\ job[j].status = PROCESSING
        /\ \E k \in DOMAIN dl[j].ps :
              dl[j].ps[k].st = "done" /\ ~dl[j].ps[k].ok
        /\ \E k \in DOMAIN dl[j].ps : dl[j].ps[k].st \in {"get", "read"}


(***************************************************************************)
(* C31  Image gallery task construction                                    *)
(***************************************************************************)
\* the call of job j has built the pairs of a document on the gallery route
GalleryBuilt(j) ==
    /\ Routed(j)
    /\ Route(DetailOf(dl[j].data)) = "gallery"
    /\ DetailOf(dl[j].data).images # <<>>
    /\ dl[j].caught = ""

\* the directory of a gallery: <image-root>/<author>/<sanitized-title>/
GalleryDir(d, map) ==
    MkPath("images", _extract_metadata(d, map).author_name,
           _get_safe_filename(_extract_metadata(d, map).desc), <<>>, "")

\* the positions of the items of a list that have an image address
WithAddress(images) == {i \in DOMAIN images : images[i].url_list # <<>>}

\* C31 as stated: n items give n pairs, pair i named image_<i> with the
\* extension of the item's address, under the directory of the gallery
C31_OnePairPerItem ==
    \A j \in JobIds :
        GalleryBuilt(j) =>
            LET d == DetailOf(dl[j].data)
                dir == GalleryDir(d, uid_to_name_map)
            IN  /\ Len(dl[j].pairs) = Len(d.images)
                /\ \A i \in DOMAIN dl[j].pairs :
                      /\ dl[j].pairs[i].url_list = d.images[i].url_list
                      /\ dl[j].pairs[i].save_path =
                            [dir EXCEPT !.name = Numbered("image_", i),
                                        !.ext = UrlExt(d.images[i].url_list[1])]

\* C31 amended: a pair is built for each item that has an image address and
\* none for the others, in the order of the list; the pair of the item at
\* position i is named image_<i, two digits>.heic whatever the address ends
\* with, under <image-root>/<author>/<sanitized-title>/; so the numbers
\* ascend, with a gap wherever an item was passed over, and a list of n
\* items that all have an address gives n pairs numbered 1 to n.
C31_OnePairPerAddressedItem ==
    \A j \in JobIds :
        GalleryBuilt(j) =>
            LET d == DetailOf(dl[j].data)
                dir == GalleryDir(d, uid_to_name_map)
                at == WithAddress(d.images)
                \* the position in the list of the item of pair k
                pos(k) == CHOOSE i \in at :
                             Cardinality({h \in at : h <= i}) = k
            IN  /\ Len(dl[j].pairs) = Cardinality(at)
                /\ \A k \in DOMAIN dl[j].pairs :
                      /\ dl[j].pairs[k].url_list = d.images[pos(k)].url_list
                      /\ dl[j].pairs[k].save_path =
                            [dir EXCEPT !.name = Numbered("image_", pos(k)),
                                        !.ext = "heic"]
                /\ at = DOMAIN d.images =>
                      /\ Len(dl[j].pairs) = Len(d.images)
                      /\ \A k \in DOMAIN dl[j].pairs :
                            dl[j].pairs[k].save_path.name = Numbered("image_", k)
                /\ at = {} =>
                      dl[j].phase = "returned" /\ dl[j].outcome = Returned(<<>>)

\* a gallery of MaxItems items whose first has no address: fewer pairs,
\* the first of them numbered 02
C31_Witness ==
    \E j \in JobIds :
        /\ GalleryBuilt(j)
        /\ Len(DetailOf(dl[j].data).images) = MaxItems
        /\ 1 \notin WithAddress(DetailOf(dl[j].data).images)
        /\ Len(dl[j].pairs) = MaxItems - 1
        /\ dl[j].pairs[1].save_path.name = Numbered("image_", 2)

\* a gallery whose items all have an address: one pair per item
C31_Full ==
    \E j \in JobIds :
        /\ GalleryBuilt(j)
        /\ Len(DetailOf(dl[j].data).images) = MaxItems
        /\ Len(dl[j].pairs) = MaxItems
        /\ uid_to_name_map # EmptyFn

\* the address of the item ends with webp, the pair is named .heic
C31_HeicWhateverTheAddress ==
    \E j \in JobIds :
        /\ GalleryBuilt(j)
        /\ dl[j].pairs # <<>>
        /\ UrlExt(dl[j].pairs[1].url_list[1]) = "webp"
        /\ Suffix(dl[j].pairs[1].save_path) = "heic"


(***************************************************************************)
(* C32  The files a Completed job reports                                  *)
(***************************************************************************)
\* the step in which job j becomes Completed
Completes(j) == job[j].status # COMPLETED /\ job'[j].status = COMPLETED

\* the step in which an attempt of job j on path p fails at its request:
\* the except branch of _download_file unlinks p
AttemptUnlinks(j, p) ==
    \E k \in DOMAIN dl[j].ps :
        /\ dl[j].phase = "batch"
        /\ dl[j].pairs[k].save_path = p
        /\ dl[j].ps[k].st = "get"
        /\ dl'[j].ps[k].st # "read"
        /\ dl'[j].ps[k] # dl[j].ps[k]

\* C32: whatever the interleaving of jobs admitted together, every path a
\* download job lists when it completes names a completely written file,
\* and no failed attempt of another job removes a file a Completed job
\* has listed.
C32_ReportedFilesComplete ==
    /\ [][\A j \in JobIds :
            (Completes(j) /\ variant[j] = "DownloadTask") =>
                \A i \in DOMAIN files'[j] :
                    /\ files'[j][i] \in DOMAIN media'
                    /\ media'[files'[j][i]] = "data"]_vars
    /\ [][\A j, j2 \in JobIds :
            (/\ j # j2
             /\ job[j].status = COMPLETED
             /\ variant[j] = "DownloadTask") =>
                \A i \in DOMAIN files[j] :
                    (/\ files[j][i] \in DOMAIN media
                     /\ AttemptUnlinks(j2, files[j][i])) =>
                        files[j][i] \in DOMAIN media']_vars


(***************************************************************************)
(* C33  A failed download and the files that were there before             *)
(***************************************************************************)
\* C33: a failed attempt of a pair leaves in place the file that
\* _download_with_retry found at the destination when it started, and a
\* pair that ended without success still has it.
C33_FailureKeepsExisting ==
    /\ [][\A j \in JobIds, k \in 1..MaxPairs :
            (AttemptFails(j, k) /\ dl[j].ps[k].existed) =>
                dl[j].pairs[k].save_path \in DOMAIN media']_vars
    /\ [](\A j \in JobIds, k \in 1..MaxPairs :
            (/\ InBatch(j, k)
             /\ dl[j].ps[k].existed
             /\ dl[j].ps[k].st = "done"
             /\ ~dl[j].ps[k].ok) =>
                dl[j].pairs[k].save_path \in DOMAIN media)

\* what holds: a failed attempt touches no file but its own destination
C33_OnlyOwnDestination ==
    [][\A j \in JobIds, k \in 1..MaxPairs :
          AttemptFails(j, k) =>
              \A p \in DOMAIN media \ {dl[j].pairs[k].save_path} :
                  p \in DOMAIN media' /\ media'[p] = media[p]]_vars

\* the completely written .heic the call found at its destination is gone
\* after the failure of the pair that requested it again
C33_StaleHeicRemoved ==
    \E j \in JobIds, k \in 1..MaxPairs :
        /\ InBatch(j, k)
        /\ dl[j].ps[k].existed
        /\ ~dl[j].ps[k].had_jpg
        /\ dl[j].ps[k].st = "done"
        /\ ~dl[j].ps[k].ok
        /\ dl[j].pairs[k].url_list # <<>>
        /\ dl[j].pairs[k].save_path \notin DOMAIN media


(***************************************************************************)
(* C34  Eviction is independent of execution                               *)
(***************************************************************************)
\* job j has been submitted and is no longer in the registry
Evicted(j) == pc[j] # "idle" /\ j \notin tasks

\* C34: a sweep evicts every job older than the window, whatever its
\* status; an evicted job that waits for a slot or holds one goes on to a
\* terminal status, and the step in which its run_task returns frees its
\* slot or hands it to a waiter; an evicted job is never registered again,
\* and get_job returns absent for it.
C34_EvictionIndependent ==
    /\ [][SweepStep =>
            \A t \in tasks :
                Age(t) > JOB_RETENTION_SECONDS => t \notin tasks']_vars
    /\ \A j \in JobIds :
          (Evicted(j) /\ InRunTask(j)) ~>
              (pc[j] = "returned" /\ Terminal(job[j]))
    /\ [][\A j \in JobIds :
            (Evicted(j) /\ Leaves(j)) =>
                /\ Terminal(job'[j])
                /\ \/ semValue' = semValue + 1
                   \/ /\ semValue' = semValue
                      /\ \E k \in JobIds : pc[k] = "waiting" /\ pc'[k] = "woken"]_vars
    /\ [][\A j \in JobIds : Evicted(j) => Evicted(j)']_vars
    /\ [](\A j \in JobIds : Evicted(j) => get_job(j) = None)

\* a job evicted while it waited for a slot has been admitted
C34_Witness ==
    \E j \in JobIds :
        /\ Evicted(j)
        /\ pc[j] = "download"
        /\ job[j].status = PROCESSING
        /\ \E k \in JobIds : k # j /\ pc[k] = "returned" /\ Terminal(job[k])
        /\ semValue < GateSize

\* a job is evicted while it waits for a slot, still Pending
C34_EvictedWaiting ==
    \E j \in JobIds :
        /\ Evicted(j)
        /\ pc[j] \in {"waiting", "woken"}
        /\ job[j].status = PENDING

\* a job evicted before its run was over has reached a terminal status
C34_EvictedTerminal ==
    \E j \in JobIds :
        /\ Evicted(j)
        /\ pc[j] = "returned"
        /\ Terminal(job[j])
        /\ now - job[j].created_at > JOB_RETENTION_SECONDS
        /\ semValue = GateSize


(***************************************************************************)
(* C35  What the pipeline persists in the cache                            *)
(***************************************************************************)
\* the call of job j was served from the cache and has returned
ServedFromCache(j) == dl[j].phase = "returned" /\ dl[j].hit

C35_PersistedHasData ==
    \A p \in DOMAIN jsonfs :
        jsonfs[p] # Truncated => jsonfs[p].code = 200 /\ jsonfs[p].data # None

\* the call after the one that stored a body without aweme_detail reads it
\* from the cache, requests nothing and returns the empty result
C35_EmptyFromCache ==
    \E j \in JobIds :
        /\ ServedFromCache(j)
        /\ dl[j].warm
        /\ dl[j].api_calls = 0
        /\ DetailOf(dl[j].data) = None
        /\ dl[j].outcome = Returned(<<>>)
        /\ index[dl[j].parsed.cache_key] = "unknown_author"


(***************************************************************************)
(* C36  Job snapshot consistency                                           *)
(***************************************************************************)
\* the result of a job record holds something: a file list with a file, or
\* a transcript with a character
NonEmptyResult(jb) ==
    /\ jb.result # None
    /\ jb.result.tag = "files" => jb.result.files # <<>>
    /\ jb.result.tag = "text" => jb.result.text # ""

\* C36: in every state a poller can see (the states between the steps of
\* the coroutines) a Completed job has a non-empty result and no error, a
\* Failed job an error and no result, a Pending or Processing job neither.
C36_SnapshotConsistent ==
    \A j \in JobIds :
        LET jb == job[j]
        IN  /\ jb.status = COMPLETED => NonEmptyResult(jb) /\ jb.error = None
            /\ jb.status = FAILED => jb.error # None /\ jb.result = None
            /\ jb.status \in {PENDING, PROCESSING} =>
                  jb.result = None /\ jb.error = None
            /\ pc[j] # "idle" => get_job(j) \in {None, jb}

\* a poller sees at once a Completed download job, a Failed job and a job
\* still Processing
C36_Witness ==
    \E j, k \in JobIds :
        /\ job[j].status = COMPLETED
        /\ job[j].result.tag = "files"
        /\ get_job(j) = job[j]
        /\ job[k].status = PROCESSING
        /\ pc[k] = "transcribe"
        /\ get_job(k) = job[k]

\* a Completed transcription job beside a Failed one
C36_TextAndFailure ==
    \E j, k \in JobIds :
        /\ job[j].status = COMPLETED
        /\ job[j].result.tag = "text"
        /\ job[k].status = FAILED
        /\ job[k].error.code = "transcribe_failed"


(***************************************************************************)
(* C37  The file handed to the transcription service                       *)
(***************************************************************************)
\* the positions of the files of job j that carry a video extension
VideoPositions(j) ==
    {i \in DOMAIN files[j] : files[j][i].ext \in {"mp4", "mov", "mkv"}}

\* the download of the composite job j has returned files
GotFiles(j) ==
    /\ variant[j] = "DownloadAndTranscribeTask"
    /\ pc[j] \in {"transcribe", "returned"}
    /\ files[j] # <<>>

\* C37: of the files the retrieval returned, the transcription service gets
\* the first in list order with a video extension and no other; when none
\* has a video extension it is never called and the job is Failed with
\* transcribe_empty.
C37_FirstVideoOnly ==
    \A j \in JobIds :
        GotFiles(j) =>
            IF VideoPositions(j) # {}
            THEN LET first == CHOOSE i \in VideoPositions(j) :
                                 \A k \in VideoPositions(j) : i <= k
                 IN  transcribed[j] = <<files[j][first]>>
            ELSE /\ transcribed[j] = <<>>
                 /\ pc[j] = "returned"
                 /\ job[j].status = FAILED
                 /\ job[j].error.code = "transcribe_empty"

\* the list holds an image, then two videos: the first video was handed
\* over, the second was not, and the job has Completed
C37_Witness ==
    \E j \in JobIds :
        /\ GotFiles(j)
        /\ VideoPositions(j) = {2, 3}
        /\ transcribed[j] = <<files[j][2]>>
        /\ files[j][2].ext # files[j][3].ext
        /\ job[j].status = COMPLETED

\* a list of images only: no call, Failed with transcribe_empty
C37_NoVideo ==
    \E j \in JobIds :
        /\ GotFiles(j)
        /\ Len(files[j]) = MaxFiles
        /\ VideoPositions(j) = {}
        /\ transcribed[j] = <<>>
        /\ job[j].error.code = "transcribe_empty"

====
